---- MODULE Spec2Model ----
(***************************************************************************)
(* A model of the rv32emu interpreter core: the per-instruction semantics  *)
(* of src/rv32_template.c (the bodies handed to RVOP) executed by the      *)
(* tail-chained dispatcher, and the helpers of src/utils.c.                *)
(*                                                                         *)
(* Representation of machine words.  TLC integers are 32-bit signed, so a  *)
(* uint32_t value u is held as the integer s with s = u (mod 2^32) and     *)
(* -2^31 <= s < 2^31 (its two's-complement reading): 0xFFFFFFFF is -1 and  *)
(* 0x80000000 is MIN32.  Every operator below computes the C result on     *)
(* that representation without leaving the 32-bit range.                   *)
(***************************************************************************)
EXTENDS Integers, Sequences, FiniteSets, TLC

VARIABLES rv, cycle, PC, ctl, ret, io, last, hist, site, set, lib, san

\* The state of the interpreter, which no helper of utils.c touches.
machine == <<rv, cycle, PC, ctl, ret, io, last, hist, site>>

\* The state of the helpers of utils.c, which no instruction touches.
utils == <<set, lib, san>>

vars == <<rv, cycle, PC, ctl, ret, io, last, hist, site, set, lib, san>>

(***************************************************************************)
(* 32-bit arithmetic                                                       *)
(***************************************************************************)

\* INT32_MAX, the largest value of int32_t; uint32_t wraps at 2 * (MAX32 + 1).
MAX32 == 2147483647

\* INT32_MIN, which is also the word 0x80000000.
MIN32 == (-MAX32) - 1

\* uint32_t addition: a + b modulo 2^32.
Add32(a, b) ==
    IF a >= 0 /\ b >= 0 /\ a > MAX32 - b THEN (a + MIN32) + (b + MIN32)
    ELSE IF a < 0 /\ b < 0 /\ a < MIN32 - b THEN (a - MIN32) + (b - MIN32)
    ELSE a + b

\* uint32_t negation: -a modulo 2^32.
Neg32(a) == IF a = MIN32 THEN MIN32 ELSE -a

\* uint32_t subtraction: a - b modulo 2^32.
Sub32(a, b) == Add32(a, Neg32(b))

\* The word with its top bit flipped: turns unsigned order into signed order.
Flip32(a) == IF a >= 0 THEN a + MIN32 ELSE a - MIN32

\* a < b on uint32_t operands.
ULt(a, b) == Flip32(a) < Flip32(b)

\* a < b on int32_t operands.
SLt(a, b) == a < b

\* x & mask for the masks 1 and 3 used by the alignment checks.
LowBits(a, mask) == a % (mask + 1)

\* x & ~1U.
ClearBit0(a) == a - (a % 2)

\* The two 16-bit halves of a word, and the word made of two halves.
Lo16(x) == x % 65536
Hi16(x) == (x \div 65536) % 65536
FromHalves(hi, lo) == (IF hi >= 32768 THEN hi - 65536 ELSE hi) * 65536 + lo

\* Byte i (0 the lowest) of a word, and the word made of four bytes.
ByteOf(x, i) ==
    CASE i = 0 -> x % 256
      [] i = 1 -> (x \div 256) % 256
      [] i = 2 -> (x \div 65536) % 256
      [] i = 3 -> (x \div 16777216) % 256
FromBytes(b3, b2, b1, b0) == FromHalves(b3 * 256 + b2, b1 * 256 + b0)

RECURSIVE BitAnd8(_, _, _)
\* Bitwise AND of the n low bits of two bytes.
BitAnd8(a, b, n) ==
    IF n = 0 THEN 0
    ELSE (IF a % 2 = 1 /\ b % 2 = 1 THEN 1 ELSE 0) + 2 * BitAnd8(a \div 2, b \div 2, n - 1)

RECURSIVE BitOr8(_, _, _)
\* Bitwise OR of the n low bits of two bytes.
BitOr8(a, b, n) ==
    IF n = 0 THEN 0
    ELSE (IF a % 2 = 1 \/ b % 2 = 1 THEN 1 ELSE 0) + 2 * BitOr8(a \div 2, b \div 2, n - 1)

RECURSIVE BitXor8(_, _, _)
\* Bitwise XOR of the n low bits of two bytes.
BitXor8(a, b, n) ==
    IF n = 0 THEN 0
    ELSE (IF (a % 2) # (b % 2) THEN 1 ELSE 0) + 2 * BitXor8(a \div 2, b \div 2, n - 1)

\* a & b, a | b and a ^ b on words, byte by byte.
And32(a, b) ==
    FromBytes(BitAnd8(ByteOf(a, 3), ByteOf(b, 3), 8), BitAnd8(ByteOf(a, 2), ByteOf(b, 2), 8),
              BitAnd8(ByteOf(a, 1), ByteOf(b, 1), 8), BitAnd8(ByteOf(a, 0), ByteOf(b, 0), 8))
Or32(a, b) ==
    FromBytes(BitOr8(ByteOf(a, 3), ByteOf(b, 3), 8), BitOr8(ByteOf(a, 2), ByteOf(b, 2), 8),
              BitOr8(ByteOf(a, 1), ByteOf(b, 1), 8), BitOr8(ByteOf(a, 0), ByteOf(b, 0), 8))
Xor32(a, b) ==
    FromBytes(BitXor8(ByteOf(a, 3), ByteOf(b, 3), 8), BitXor8(ByteOf(a, 2), ByteOf(b, 2), 8),
              BitXor8(ByteOf(a, 1), ByteOf(b, 1), 8), BitXor8(ByteOf(a, 0), ByteOf(b, 0), 8))

\* 2^k for 0 <= k <= 30.
Pow2(k) ==
    <<1, 2, 4, 8, 16, 32, 64, 128, 256, 512, 1024, 2048, 4096, 8192, 16384, 32768,
      65536, 131072, 262144, 524288, 1048576, 2097152, 4194304, 8388608, 16777216,
      33554432, 67108864, 134217728, 268435456, 536870912, 1073741824>>[k + 1]

\* uint32_t x << k for 0 <= k <= 31: each half times 2^k, the low half's
\* overflow carried into the high half.
Shl32(a, k) ==
    IF k >= 16 THEN FromHalves((Lo16(a) * Pow2(k - 16)) % 65536, 0)
    ELSE LET lo == Lo16(a) * Pow2(k)
         IN  FromHalves((Hi16(a) * Pow2(k) + (lo \div 65536)) % 65536, lo % 65536)

\* uint32_t x >> k for 0 <= k <= 31 (zero fill).
Shr32(a, k) ==
    IF k = 0 THEN a
    ELSE IF a >= 0 THEN (IF k = 31 THEN 0 ELSE a \div Pow2(k))
    ELSE (((a - MIN32) \div 2) + Pow2(30)) \div Pow2(k - 1)

\* int32_t x >> k for 0 <= k <= 31 (sign fill, as gcc and clang compile it).
Sar32(a, k) == IF k = 31 THEN (IF a < 0 THEN -1 ELSE 0) ELSE a \div Pow2(k)

\* The low 32 bits of x * 2^k for 0 <= x < 2^24 and any k >= 0.
ShlPart(x, k) == IF k >= 32 THEN 0 ELSE Shl32(x, k)

\* The low 32 bits of a * c * 2^k for a byte c: the halves of a times c.
MulByte(a, c, k) == Add32(ShlPart(Lo16(a) * c, k), ShlPart(Hi16(a) * c, k + 16))

\* The low 32 bits of a * b: a times each byte of b, shifted into place.
Mul32(a, b) ==
    Add32(Add32(MulByte(a, ByteOf(b, 0), 0), MulByte(a, ByteOf(b, 1), 8)),
          Add32(MulByte(a, ByteOf(b, 2), 16), MulByte(a, ByteOf(b, 3), 24)))

\* The high 32 bits of the uint64_t product of two uint32_t words: the byte
\* columns of the schoolbook product, each carrying into the next.
MulHiU(a, b) ==
    LET A(i) == ByteOf(a, i)
        B(i) == ByteOf(b, i)
        c0 == A(0) * B(0)
        c1 == A(0) * B(1) + A(1) * B(0) + (c0 \div 256)
        c2 == A(0) * B(2) + A(1) * B(1) + A(2) * B(0) + (c1 \div 256)
        c3 == A(0) * B(3) + A(1) * B(2) + A(2) * B(1) + A(3) * B(0) + (c2 \div 256)
        c4 == A(1) * B(3) + A(2) * B(2) + A(3) * B(1) + (c3 \div 256)
        c5 == A(2) * B(3) + A(3) * B(2) + (c4 \div 256)
        c6 == A(3) * B(3) + (c5 \div 256)
    IN  FromBytes(c6 \div 256, c6 % 256, c5 % 256, c4 % 256)

\* (uint64_t) (x * y) >> 32 for 64-bit operands given as high and low words:
\* the product modulo 2^64 takes xlo * ylo whole and the low words of the
\* two cross products.
Mul64Hi(xhi, xlo, yhi, ylo) ==
    Add32(Add32(MulHiU(xlo, ylo), Mul32(xhi, ylo)), Mul32(xlo, yhi))

\* The high word of the int64_t a 32-bit value converts to: (int32_t) x sign-
\* extends, a uint32_t zero-extends.
SextHi(x) == IF x < 0 THEN -1 ELSE 0

\* |a| as an unsigned word (|INT32_MIN| is 0x80000000).
Abs32(a) == IF a < 0 THEN Neg32(a) ELSE a

\* C's unsigned a / b for b # 0.
UDiv32(a, b) ==
    IF b < 0 THEN (IF ULt(a, b) THEN 0 ELSE 1)
    ELSE IF a >= 0 THEN a \div b
    ELSE IF b = 1 THEN a
    ELSE LET l == a - MIN32
             carry == IF (l % b) + 1 >= b - (MAX32 % b) THEN 1 ELSE 0
         IN  (MAX32 \div b) + (l \div b) + carry

\* C's unsigned a % b for b # 0.
URem32(a, b) == Sub32(a, Mul32(UDiv32(a, b), b))

\* C's signed a / b (truncation toward zero) where it is defined:
\* b # 0 and not (a = INT32_MIN and b = -1).
SDiv32(a, b) ==
    LET q == UDiv32(Abs32(a), Abs32(b))
    IN  IF (a < 0) # (b < 0) THEN Neg32(q) ELSE q

\* C's signed a % b where it is defined; the sign follows the dividend.
SRem32(a, b) ==
    LET r == URem32(Abs32(a), Abs32(b))
    IN  IF a < 0 THEN Neg32(r) ELSE r

(***************************************************************************)
(* Machine state and decoded records                                       *)
(***************************************************************************)

\* Indices of the registers the enumerated records name, among X[0..31].
rv_reg_zero == 0
rv_reg_ra == 1
rv_reg_sp == 2
Regs == {0, 1, 2, 3, 8, 9}

\* Indices of the float registers the enumerated records name.
FRegs == {0, 1}

\* The number of instructions one behaviour dispatches.
MaxInsns == 2

\* The cycle budget of a run of the guest loop program.
CycleBudget == 16

\* csr_cycle and the cycle argument are uint64_t counters; the model keeps
\* them modulo CycleWrap.
CycleWrap == 32
Tick(c) == (c + 1) % CycleWrap

\* set_t is table[1 << SET_SIZE_BITS][SET_SLOTS_SIZE] of rv_hash_key_t; keys
\* are drawn from 0..MaxKey.
SET_SIZE_BITS == 1
SET_SLOTS_SIZE == 2
MaxKey == 3
SET_SIZE == 2 ^ SET_SIZE_BITS
Keys == 0 .. MaxKey
Buckets == 0 .. (SET_SIZE - 1)
Slots == 0 .. (SET_SLOTS_SIZE - 1)

\* The branch history table of a JALR-class record has HISTORY_SIZE slots; a
\* target PC sees at most MaxGen blocks come and go; a run of the indirect
\* jump site retires at most SiteInsns instructions, one of the direct jump
\* or branch site LinkInsns, and blocks, cache and links stop changing with
\* the last of them.
HISTORY_SIZE == 2
MaxGen == 2
SiteInsns == 4
LinkInsns == 2
HSlots == 0 .. (HISTORY_SIZE - 1)

\* #define MAX_PATH_LEN 1024
MAX_PATH_LEN == 1024

\* Paths handed to sanitize_path: every string of at most MaxPath characters
\* out of '/', '.' and one ordinary character.
MaxPath == 5
PathChars == {"/", ".", "a"}
Paths == UNION {[1 .. k -> PathChars] : k \in 0 .. MaxPath}
NUL == "nul"

\* csr_mstatus value written by MRET (bit 7).
MSTATUS_MPIE == 128

NoExc == [kind |-> "none", val |-> 0]

\* The register file the guest holds when the run starts (x0 is zero): an
\* aligned base in x1, the stack pointer, an odd address in x3, a halfword-
\* aligned address in x8 and zero in x9.
RegFile == [r \in Regs |->
    CASE r = 1 -> 4096 [] r = 2 -> 8192 [] r = 3 -> 4099 [] r = 8 -> 12290
      [] OTHER -> 0]

\* Entry points: an ordinary one, and one four bytes below the top of memory.
EntryPCs == {4096, -4}

\* Values a host memory-read callback returns (truncated to the access width).
MemBytes == {128}
MemHalves == {32768}
MemWords == {5, MIN32}

\* A decoded record: the fields of rv_insn_t the instruction bodies read.
\* next, branch_taken and branch_untaken say whether the pointer is non-NULL.
Ir(rd, rs1, rs2, imm) ==
    [rd |-> rd, rs1 |-> rs1, rs2 |-> rs2, imm |-> imm, shamt |-> 0,
     next |-> FALSE, branch_taken |-> FALSE, branch_untaken |-> FALSE]

\* Records of straight-line instructions: ir->next is set or is the block's end.
WithNext(S) == {[i EXCEPT !.next = n] : i \in S, n \in BOOLEAN}

\* Records of branches: any state of the two successor pointers.
WithLinks(S) ==
    {[i EXCEPT !.branch_taken = t, !.branch_untaken = u] :
        i \in S, t \in BOOLEAN, u \in BOOLEAN}

\* Records of direct and indirect jumps: branch_taken (or the history table /
\* block map lookup) resolves to a successor record or does not.
WithTaken(S) == {[i EXCEPT !.branch_taken = t] : i \in S, t \in BOOLEAN}

URecs == WithNext({Ir(rd, 0, 0, 4096) : rd \in {0, 1}})
IRecs == WithNext({Ir(rd, 1, 0, -1) : rd \in {0, 1}})
ShRecs == WithNext({Ir(rd, 1, 0, imm) : rd \in {0, 1}, imm \in {0, 1, 31, 1029}})
RRecs == WithNext({Ir(rd, 1, 2, 0) : rd \in {0, 3}})
LdRecs == WithNext({Ir(0, 1, 0, 0)} \cup {Ir(3, 1, 0, imm) : imm \in {0, 1, 2}})
StRecs == WithNext({Ir(0, 1, 2, imm) : imm \in {0, 1, 2}})
BRecs == WithLinks({Ir(0, 1, rs2, 8) : rs2 \in {1, 2}})
JRecs == WithTaken({Ir(rd, 0, 0, imm) : rd \in {0, 1}, imm \in {0, 8}})
JrRecs == WithTaken({Ir(rd, rs1, 0, imm) : rd \in {0, 1}, rs1 \in {1, 3}, imm \in {0, 1}})

TypeOK ==
    /\ rv.X \in [Regs -> Int]
    /\ ctl \in {"outer", "insn"}
    /\ ret \in BOOLEAN
    /\ cycle \in Nat

\* A record with its three successor pointers NULL.
Unlinked(ir) == [ir EXCEPT !.next = FALSE, !.branch_taken = FALSE, !.branch_untaken = FALSE]

\* The machine as rv_reset leaves it: registers and entry PC loaded, CSRs clear.
Machine(x, pc) ==
    [X |-> x, F |-> [f \in FRegs |-> 0], PC |-> pc, csr_cycle |-> 0,
     csr_mstatus |-> 0, csr_mepc |-> 0, compressed |-> FALSE, exc |-> NoExc]

\* The record of the last retired instruction before any has retired.
NoInsn(x) ==
    [op |-> "none", ir |-> Ir(0, 0, 0, 0), pc |-> 0, X |-> x,
     cycle |-> 0, ncalls |-> 0, exit |-> "none"]

\* The state rv_step finds before its first block, nothing dispatched yet.
\* hist observes the run: n instructions retired of at most max, chain of
\* them since the last dispatch, which was entered with cycle count entry.
\* mode "run" is a plain run; "chain" also logs each retired record in trace;
\* "step" re-runs the logged records from the boot state with every link
\* NULL, snap being the state the logged run ended in.
\* "live" is a run under a cycle budget of max: the outer loop dispatches
\* while n < max, a record runs whatever n is, and n and chain stop counting
\* at max.
\* set_reset: memset(set, 0, sizeof(set_t)).
ZeroSet == [b \in Buckets |-> [c \in Slots |-> 0]]

\* No helper called yet.  hash is set_hash as a table; added is the set of
\* keys handed to set_add since the last set_reset, had whether the last
\* call's key was among them before it; prev is the table the last call
\* found; fault is "none" or what the last call did outside the
\* object: "read" / "write" a slot past its bucket, or "assert".
NoCall(h) ==
    [hash |-> h, fn |-> "none", key |-> 0, res |-> FALSE, fault |-> "none",
     added |-> {}, had |-> FALSE, prev |-> ZeroSet]

\* sanitize_path not called yet.  input, n, ret, w, r, dotdot and is_root
\* are its variables, ret the n + 1 bytes of calloc; at is where it stands:
\* "scan" at the test of while (r < n), "copy" at the test of the for loop,
\* "done" after return.  over records a store outside ret, out is the string
\* a caller reads from the returned pointer.
NoPath ==
    [input |-> <<>>, n |-> 0, ret |-> <<>>, w |-> 0, r |-> 0, dotdot |-> 0,
     is_root |-> FALSE, at |-> "idle", over |-> FALSE, out |-> <<>>]

UtilsIdle ==
    /\ set = ZeroSet
    /\ lib = NoCall([k \in Keys |-> k % SET_SIZE])
    /\ san = NoPath

\* A pointer to a block's head record is the number of the block among those
\* created at its PC, from 1; NULL is 0.
NULL == 0

\* The blocks and the links of the jump sites, for a build with or without
\* the JIT, where blocks come and go at the addresses pcs.  block_map[pc] is
\* the head of the block held for pc, of the born[pc] made there so far;
\* cache and hot are the PCs cache_get finds and cache_hot reports.
\* branch_taken and branch_untaken are the links of the JAL / branch site,
\* branch_table the table of the JALR site; written and order (oldest first)
\* tell which slots have been stored to.  prev is the table before the last indirect jump and went what
\* the last jump did: how it left, for which pc, through which record, and
\* the head the block map (with the JIT, the cache) held for pc then.
NoSite(jit, pcs) ==
    [jit |-> jit, op |-> "jalr", pcs |-> pcs,
     block_map |-> [p \in pcs |-> NULL], born |-> [p \in pcs |-> 0],
     cache |-> {}, hot |-> {},
     branch_taken |-> NULL, branch_untaken |-> NULL,
     branch_table |-> [PC |-> [i \in HSlots |-> 0],
                       target |-> [i \in HSlots |-> NULL], idx |-> 0],
     written |-> {}, order |-> <<>>,
     prev |-> [PC |-> [i \in HSlots |-> 0], target |-> [i \in HSlots |-> NULL],
               idx |-> 0, written |-> {}, order |-> <<>>],
     went |-> [how |-> "none", pc |-> 0, to |-> NULL, held |-> NULL,
               had |-> NULL, now |-> NULL],
     fault |-> FALSE]

InitCore(x, pc, mode, max) ==
    /\ rv = Machine(x, pc)
    /\ cycle = 0
    /\ PC = 0
    /\ ctl = "outer"
    /\ ret = TRUE
    /\ io = <<>>
    /\ last = NoInsn(x)
    /\ hist = [n |-> 0, chain |-> 0, entry |-> 0, max |-> max, mode |-> mode,
               trace |-> <<>>, boot |-> Machine(x, pc),
               snap |-> [rv |-> Machine(x, pc), io |-> <<>>, ret |-> TRUE]]

InitAs(x, pc, mode, max) ==
    InitCore(x, pc, mode, max) /\ UtilsIdle /\ site = NoSite(FALSE, {})

InitWith(x, pc) == InitAs(x, pc, "run", MaxInsns)

Init == \E pc \in EntryPCs : InitWith(RegFile, pc)

\* The outer loop: dispatch the block at rv->PC with the machine's cycle count.
Dispatch ==
    /\ ctl = "outer"
    /\ ret = TRUE
    /\ hist.n < hist.max
    /\ hist.mode = "step" => hist.n < Len(hist.trace)
    /\ cycle' = rv.csr_cycle
    /\ PC' = rv.PC
    /\ ctl' = "insn"
    /\ hist' = [hist EXCEPT !.chain = 0, !.entry = rv.csr_cycle]
    /\ UNCHANGED <<rv, ret, io, last, site>>
    /\ UNCHANGED utils

\* One record has run: the wrapper's cycle++ and the way it left.
\*   exit = "tail" : MUST_TAIL return <successor>->impl(rv, <successor>, cycle, PC)
\*   exit = "true" / "false" : return to the outer loop with that value
Run(op, ir, rv1, pc1, exit, io1) ==
    /\ ctl = "insn"
    /\ hist.mode # "live" => hist.n < hist.max
    /\ hist.mode = "step" =>
         /\ ir = Unlinked(ir)
         /\ hist.trace[hist.n + 1] = [op |-> op, ir |-> ir]
    /\ cycle' = Tick(cycle)
    /\ PC' = pc1
    /\ rv' = rv1
    /\ io' = io1
    /\ ctl' = IF exit = "tail" THEN "insn" ELSE "outer"
    /\ ret' = IF exit = "tail" THEN ret ELSE (exit = "true")
    /\ last' = [op |-> op, ir |-> ir, pc |-> PC, X |-> rv.X, cycle |-> cycle,
                ncalls |-> Len(io), exit |-> exit]
    /\ hist' = [hist EXCEPT !.n = IF @ < hist.max THEN @ + 1 ELSE @,
                            !.chain = IF @ < hist.max THEN @ + 1 ELSE @,
                            !.trace = IF hist.mode = "chain"
                                        THEN Append(@, [op |-> op, ir |-> Unlinked(ir)])
                                      ELSE @]
    /\ UNCHANGED utils

\* A record that reads no link of the jump sites and writes none.
Retire(op, ir, rv1, pc1, exit, io1) ==
    Run(op, ir, rv1, pc1, exit, io1) /\ UNCHANGED site

\* end_insn: rv->csr_cycle = cycle; rv->PC = PC; return true.
EndInsn(r, pc1) == [r EXCEPT !.csr_cycle = Tick(cycle), !.PC = pc1]

\* nextop: PC += len; the block's last record writes back and returns true,
\* any other tail-calls ir->next.
NextOp(op, ir, r, len, io1) ==
    LET pc1 == Add32(PC, len)
    IN  IF ir.next THEN Retire(op, ir, r, pc1, "tail", io1)
        ELSE Retire(op, ir, EndInsn(r, pc1), pc1, "true", io1)

\* insn_is_misaligned(PC) with the C extension built in: bit 0 set.
insn_is_misaligned(pc) == LowBits(pc, 1) # 0

\* RV_EXC_MISALIGN_HANDLER's body: latch compressed, cycle and PC, report the
\* exception with its value, return false.
MisalignExc(r, kind, compress, val, pc1) ==
    [r EXCEPT !.compressed = compress, !.csr_cycle = Tick(cycle), !.PC = pc1,
              !.exc = [kind |-> kind, val |-> val]]

\* rv->X[rd] = v.
SetX(r, rd, v) == [r EXCEPT !.X[rd] = v]

\* A straight-line instruction whose body is rv->X[ir->rd] = v.
WriteRd(op, ir, v, len) == NextOp(op, ir, SetX(rv, ir.rd, v), len, io)

(***************************************************************************)
(* RV32I                                                                   *)
(***************************************************************************)

nop == \E ir \in WithNext({Ir(0, 0, 0, 0)}) : WriteRd("nop", ir, 0, 4)

lui == \E ir \in URecs : WriteRd("lui", ir, ir.imm, 4)

auipc == \E ir \in URecs : WriteRd("auipc", ir, Add32(ir.imm, PC), 4)

\* JAL with the link taken from the PC after the jump.
jal_link_after_jump ==
    \E ir \in JRecs :
      LET pc == PC
          pc1 == Add32(PC, ir.imm)
          r1 == IF ir.rd # 0 THEN SetX(rv, ir.rd, Add32(pc1, 4)) ELSE rv
      IN  IF insn_is_misaligned(pc1)
            THEN Retire("jal", ir, MisalignExc(r1, "insn", FALSE, pc, pc1), pc1, "false", io)
          ELSE IF ir.branch_taken THEN Retire("jal", ir, r1, pc1, "tail", io)
          ELSE Retire("jal", ir, EndInsn(r1, pc1), pc1, "true", io)

jal ==
    \E ir \in JRecs :
      LET pc == PC
          pc1 == Add32(PC, ir.imm)
          r1 == IF ir.rd # 0 THEN SetX(rv, ir.rd, Add32(pc, 4)) ELSE rv
      IN  IF insn_is_misaligned(pc1)
            THEN Retire("jal", ir, MisalignExc(r1, "insn", FALSE, pc, pc1), pc1, "false", io)
          ELSE IF ir.branch_taken THEN Retire("jal", ir, r1, pc1, "tail", io)
          ELSE Retire("jal", ir, EndInsn(r1, pc1), pc1, "true", io)

\* JALR with the link written before the target is computed.
jalr_link_first ==
    \E ir \in JrRecs :
      LET pc == PC
          r1 == IF ir.rd # 0 THEN SetX(rv, ir.rd, Add32(pc, 4)) ELSE rv
          pc1 == ClearBit0(Add32(r1.X[ir.rs1], ir.imm))
      IN  IF insn_is_misaligned(pc1)
            THEN Retire("jalr", ir, MisalignExc(r1, "insn", FALSE, pc, pc1), pc1, "false", io)
          ELSE IF ir.branch_taken THEN Retire("jalr", ir, r1, pc1, "tail", io)
          ELSE Retire("jalr", ir, EndInsn(r1, pc1), pc1, "true", io)

jalr ==
    \E ir \in JrRecs :
      LET pc == PC
          pc1 == ClearBit0(Add32(rv.X[ir.rs1], ir.imm))
          r1 == IF ir.rd # 0 THEN SetX(rv, ir.rd, Add32(pc, 4)) ELSE rv
      IN  IF insn_is_misaligned(pc1)
            THEN Retire("jalr", ir, MisalignExc(r1, "insn", FALSE, pc, pc1), pc1, "false", io)
          ELSE IF ir.branch_taken THEN Retire("jalr", ir, r1, pc1, "tail", io)
          ELSE Retire("jalr", ir, EndInsn(r1, pc1), pc1, "true", io)

\* BRANCH_FUNC(type, cond): cond is the comparison under which the branch is
\* NOT taken.
BRANCH_FUNC(op, ir, cond) ==
    LET pc == PC
        pc1 == Add32(PC, ir.imm)
    IN  IF cond
          THEN IF ~ir.branch_untaken THEN NextOp(op, ir, rv, 4, io)
               ELSE Retire(op, ir, rv, Add32(PC, 4), "tail", io)
        ELSE IF insn_is_misaligned(pc1)
          THEN Retire(op, ir, MisalignExc(rv, "insn", FALSE, pc, pc1), pc1, "false", io)
        ELSE IF ir.branch_taken THEN Retire(op, ir, rv, pc1, "tail", io)
        ELSE Retire(op, ir, EndInsn(rv, pc1), pc1, "true", io)

beq == \E ir \in BRecs : BRANCH_FUNC("beq", ir, rv.X[ir.rs1] # rv.X[ir.rs2])
bne == \E ir \in BRecs : BRANCH_FUNC("bne", ir, rv.X[ir.rs1] = rv.X[ir.rs2])
\* BLT comparing its operands as unsigned words.
blt_unsigned == \E ir \in BRecs : BRANCH_FUNC("blt", ir, ~ULt(rv.X[ir.rs1], rv.X[ir.rs2]))

blt == \E ir \in BRecs : BRANCH_FUNC("blt", ir, ~SLt(rv.X[ir.rs1], rv.X[ir.rs2]))
bge == \E ir \in BRecs : BRANCH_FUNC("bge", ir, SLt(rv.X[ir.rs1], rv.X[ir.rs2]))
bltu == \E ir \in BRecs : BRANCH_FUNC("bltu", ir, ~ULt(rv.X[ir.rs1], rv.X[ir.rs2]))
bgeu == \E ir \in BRecs : BRANCH_FUNC("bgeu", ir, ULt(rv.X[ir.rs1], rv.X[ir.rs2]))

(***************************************************************************)
(* Host callbacks                                                          *)
(***************************************************************************)

\* The log of rv->io callbacks invoked so far, oldest first.
Call(cb, addr, val) == Append(io, [cb |-> cb, addr |-> addr, val |-> val])

\* sign_extend_b / sign_extend_h of a value a byte / halfword read returned.
sign_extend_b(x) == IF x >= 128 THEN x - 256 ELSE x
sign_extend_h(x) == IF x >= 32768 THEN x - 65536 ELSE x

\* A load: the alignment check on addr (mask 0: none), then the read callback
\* cb, whose result (already extended, one of vals) goes to X[rd].
LoadOp(op, ir, addr, mask, compress, cb, vals, len) ==
    IF LowBits(addr, mask) # 0
      THEN Retire(op, ir, MisalignExc(rv, "load", compress, addr, PC), PC, "false", io)
    ELSE \E v \in vals : NextOp(op, ir, SetX(rv, ir.rd, v), len, Call(cb, addr, v))

\* A store: the alignment check on addr (mask 0: none), then the write
\* callback cb with the value val.
StoreOp(op, ir, addr, mask, compress, cb, val, len) ==
    IF LowBits(addr, mask) # 0
      THEN Retire(op, ir, MisalignExc(rv, "store", compress, addr, PC), PC, "false", io)
    ELSE NextOp(op, ir, rv, len, Call(cb, addr, val))

\* What on_ecall / on_ebreak may leave in rv->PC: untouched, or stepped past
\* the trapping instruction.
HostPC(pc, len) == {pc, Add32(pc, len)}

lb ==
    \E ir \in LdRecs :
      LoadOp("lb", ir, Add32(rv.X[ir.rs1], ir.imm), 0, FALSE, "mem_read_b",
             {sign_extend_b(v) : v \in MemBytes}, 4)

lh ==
    \E ir \in LdRecs :
      LoadOp("lh", ir, Add32(rv.X[ir.rs1], ir.imm), 1, FALSE, "mem_read_s",
             {sign_extend_h(v) : v \in MemHalves}, 4)

lw ==
    \E ir \in LdRecs :
      LoadOp("lw", ir, Add32(rv.X[ir.rs1], ir.imm), 3, FALSE, "mem_read_w", MemWords, 4)

lbu ==
    \E ir \in LdRecs :
      LoadOp("lbu", ir, Add32(rv.X[ir.rs1], ir.imm), 0, FALSE, "mem_read_b", MemBytes, 4)

lhu ==
    \E ir \in LdRecs :
      LoadOp("lhu", ir, Add32(rv.X[ir.rs1], ir.imm), 1, FALSE, "mem_read_s", MemHalves, 4)

sb ==
    \E ir \in StRecs :
      StoreOp("sb", ir, Add32(rv.X[ir.rs1], ir.imm), 0, FALSE, "mem_write_b", rv.X[ir.rs2], 4)

sh ==
    \E ir \in StRecs :
      StoreOp("sh", ir, Add32(rv.X[ir.rs1], ir.imm), 1, FALSE, "mem_write_s", rv.X[ir.rs2], 4)

sw ==
    \E ir \in StRecs :
      StoreOp("sw", ir, Add32(rv.X[ir.rs1], ir.imm), 3, FALSE, "mem_write_w", rv.X[ir.rs2], 4)

addi == \E ir \in IRecs : WriteRd("addi", ir, Add32(rv.X[ir.rs1], ir.imm), 4)

slti == \E ir \in IRecs : WriteRd("slti", ir, IF SLt(rv.X[ir.rs1], ir.imm) THEN 1 ELSE 0, 4)

sltiu == \E ir \in IRecs : WriteRd("sltiu", ir, IF ULt(rv.X[ir.rs1], ir.imm) THEN 1 ELSE 0, 4)

xori == \E ir \in IRecs : WriteRd("xori", ir, Xor32(rv.X[ir.rs1], ir.imm), 4)

ori == \E ir \in IRecs : WriteRd("ori", ir, Or32(rv.X[ir.rs1], ir.imm), 4)

andi == \E ir \in IRecs : WriteRd("andi", ir, And32(rv.X[ir.rs1], ir.imm), 4)

\* shift_func: the three immediate shifts, by ir->imm & 0x1f.
shift_func(op, ir) ==
    CASE op = "slli" -> Shl32(rv.X[ir.rs1], LowBits(ir.imm, 31))
      [] op = "srli" -> Shr32(rv.X[ir.rs1], LowBits(ir.imm, 31))
      [] op = "srai" -> Sar32(rv.X[ir.rs1], LowBits(ir.imm, 31))

slli == \E ir \in ShRecs : WriteRd("slli", ir, shift_func("slli", ir), 4)

srli == \E ir \in ShRecs : WriteRd("srli", ir, shift_func("srli", ir), 4)

srai == \E ir \in ShRecs : WriteRd("srai", ir, shift_func("srai", ir), 4)

add == \E ir \in RRecs : WriteRd("add", ir, Add32(rv.X[ir.rs1], rv.X[ir.rs2]), 4)

sub == \E ir \in RRecs : WriteRd("sub", ir, Sub32(rv.X[ir.rs1], rv.X[ir.rs2]), 4)

sll == \E ir \in RRecs : WriteRd("sll", ir, Shl32(rv.X[ir.rs1], LowBits(rv.X[ir.rs2], 31)), 4)

slt == \E ir \in RRecs : WriteRd("slt", ir, IF SLt(rv.X[ir.rs1], rv.X[ir.rs2]) THEN 1 ELSE 0, 4)

sltu == \E ir \in RRecs : WriteRd("sltu", ir, IF ULt(rv.X[ir.rs1], rv.X[ir.rs2]) THEN 1 ELSE 0, 4)

xor == \E ir \in RRecs : WriteRd("xor", ir, Xor32(rv.X[ir.rs1], rv.X[ir.rs2]), 4)

srl == \E ir \in RRecs : WriteRd("srl", ir, Shr32(rv.X[ir.rs1], LowBits(rv.X[ir.rs2], 31)), 4)

\* SRA filling the vacated bits with zeros.
sra_zero_fill ==
    \E ir \in RRecs : WriteRd("sra", ir, Shr32(rv.X[ir.rs1], LowBits(rv.X[ir.rs2], 31)), 4)

sra == \E ir \in RRecs : WriteRd("sra", ir, Sar32(rv.X[ir.rs1], LowBits(rv.X[ir.rs2], 31)), 4)

or == \E ir \in RRecs : WriteRd("or", ir, Or32(rv.X[ir.rs1], rv.X[ir.rs2]), 4)

and == \E ir \in RRecs : WriteRd("and", ir, And32(rv.X[ir.rs1], rv.X[ir.rs2]), 4)

\* rv->io.on_ecall(rv) / rv->io.on_ebreak(rv): the log entry also keeps the
\* machine the callback was handed (seen) and the rv->PC it left behind.
CallRv(cb, r, pc2) ==
    Append(io, [cb |-> cb, addr |-> r.PC, val |-> 0, left |-> pc2,
                seen |-> [PC |-> r.PC, csr_cycle |-> r.csr_cycle,
                          compressed |-> r.compressed]])

\* ECALL / EBREAK / C.EBREAK returning false after the host callback.
HostTrap_halts(op, compress, cb, len) ==
    \E pc2 \in HostPC(PC, len) :
      LET r == [rv EXCEPT !.compressed = compress, !.csr_cycle = Tick(cycle), !.PC = PC]
      IN  Retire(op, Ir(0, 0, 0, 0), [r EXCEPT !.PC = pc2], PC, "false",
                 CallRv(cb, r, pc2))

\* ECALL / EBREAK / C.EBREAK calling the host before the write-back.
HostTrap_late(op, compress, cb, len) ==
    \E pc2 \in HostPC(PC, len) :
      LET r == [rv EXCEPT !.compressed = compress, !.csr_cycle = Tick(cycle), !.PC = PC]
      IN  Retire(op, Ir(0, 0, 0, 0), r, PC, "true", CallRv(cb, rv, pc2))

\* ECALL / EBREAK / C.EBREAK: latch, write back, call the host, return true.
HostTrap(op, compress, cb, len) ==
    \E pc2 \in HostPC(PC, len) :
      LET r == [rv EXCEPT !.compressed = compress, !.csr_cycle = Tick(cycle), !.PC = PC]
      IN  Retire(op, Ir(0, 0, 0, 0), [r EXCEPT !.PC = pc2], PC, "true",
                 CallRv(cb, r, pc2))

ecall == HostTrap("ecall", FALSE, "on_ecall", 4)

ebreak == HostTrap("ebreak", FALSE, "on_ebreak", 4)

wfi == Retire("wfi", Ir(0, 0, 0, 0), rv, PC, "false", io)

uret == Retire("uret", Ir(0, 0, 0, 0), rv, PC, "false", io)

sret == Retire("sret", Ir(0, 0, 0, 0), rv, PC, "false", io)

hret == Retire("hret", Ir(0, 0, 0, 0), rv, PC, "false", io)

mret ==
    Retire("mret", Ir(0, 0, 0, 0),
           [rv EXCEPT !.csr_mstatus = MSTATUS_MPIE, !.PC = rv.csr_mepc],
           PC, "true", io)

fencei ==
    LET pc1 == Add32(PC, 4)
    IN  Retire("fencei", Ir(0, 0, 0, 0), EndInsn(rv, pc1), pc1, "true", io)

(***************************************************************************)
(* RV32M                                                                   *)
(***************************************************************************)

\* The product of the two int32_t operands as the compiler's 32-bit multiply
\* yields it: the low word of the exact product.
mul == \E ir \in RRecs : WriteRd("mul", ir, Mul32(rv.X[ir.rs1], rv.X[ir.rs2]), 4)

mulh ==
    \E ir \in RRecs :
      LET multiplicand == rv.X[ir.rs1]
          multiplier == rv.X[ir.rs2]
      IN  WriteRd("mulh", ir,
                  Mul64Hi(SextHi(multiplicand), multiplicand, SextHi(multiplier), multiplier), 4)

\* MULHSU with rs2 sign-extended as well.
mulhsu_signed ==
    \E ir \in RRecs :
      LET multiplicand == rv.X[ir.rs1]
          umultiplier == rv.X[ir.rs2]
      IN  WriteRd("mulhsu", ir,
                  Mul64Hi(SextHi(multiplicand), multiplicand, SextHi(umultiplier), umultiplier), 4)

mulhsu ==
    \E ir \in RRecs :
      LET multiplicand == rv.X[ir.rs1]
          umultiplier == rv.X[ir.rs2]
      IN  WriteRd("mulhsu", ir,
                  Mul64Hi(SextHi(multiplicand), multiplicand, 0, umultiplier), 4)

mulhu ==
    \E ir \in RRecs :
      WriteRd("mulhu", ir, Mul64Hi(0, rv.X[ir.rs1], 0, rv.X[ir.rs2]), 4)

\* DIV with the operands left unsigned.
div_unsigned ==
    \E ir \in RRecs :
      LET udividend == rv.X[ir.rs1]
          udivisor == rv.X[ir.rs2]
      IN  WriteRd("div", ir,
                  IF udivisor = 0 THEN -1 ELSE UDiv32(udividend, udivisor), 4)

div ==
    \E ir \in RRecs :
      LET dividend == rv.X[ir.rs1]
          divisor == rv.X[ir.rs2]
      IN  WriteRd("div", ir,
                  IF divisor = 0 THEN -1
                  ELSE IF divisor = -1 /\ rv.X[ir.rs1] = MIN32 THEN rv.X[ir.rs1]
                  ELSE SDiv32(dividend, divisor), 4)

divu ==
    \E ir \in RRecs :
      LET udividend == rv.X[ir.rs1]
          udivisor == rv.X[ir.rs2]
      IN  WriteRd("divu", ir,
                  IF udivisor = 0 THEN -1 ELSE UDiv32(udividend, udivisor), 4)

rem ==
    \E ir \in RRecs :
      LET dividend == rv.X[ir.rs1]
          divisor == rv.X[ir.rs2]
      IN  WriteRd("rem", ir,
                  IF divisor = 0 THEN dividend
                  ELSE IF divisor = -1 /\ rv.X[ir.rs1] = MIN32 THEN 0
                  ELSE SRem32(dividend, divisor), 4)

remu ==
    \E ir \in RRecs :
      LET udividend == rv.X[ir.rs1]
          udivisor == rv.X[ir.rs2]
      IN  WriteRd("remu", ir,
                  IF udivisor = 0 THEN udividend ELSE URem32(udividend, udivisor), 4)

(***************************************************************************)
(* RV32A and RV32F memory accesses                                         *)
(***************************************************************************)

lrw ==
    \E ir \in WithNext({Ir(3, rs1, 0, 0) : rs1 \in {1, 3}}) :
      \E v \in MemWords :
        NextOp("lrw", ir, SetX(rv, ir.rd, v), 4, Call("mem_read_w", rv.X[ir.rs1], v))

scw ==
    \E ir \in WithNext({Ir(rd, 3, 2, 0) : rd \in {0, 1}}) :
      NextOp("scw", ir, SetX(rv, ir.rd, 0), 4, Call("mem_write_w", rv.X[ir.rs1], rv.X[ir.rs2]))

\* The body shared by the AMO*.W stubs: the word read through mem_read_w at
\* ir->rs1 goes to X[rd], then res (computed from the register file r1 that
\* write left) is handed to mem_write_s, whose value parameter is 16 bits wide.
AmoOp(op, ir, v, r1, res) ==
    NextOp(op, ir, r1, 4,
           Append(Call("mem_read_w", ir.rs1, v),
                  [cb |-> "mem_write_s", addr |-> ir.rs1, val |-> Lo16(res)]))

AmoRecs == WithNext({Ir(3, 1, 2, 0)})

amoswapw ==
    \E ir \in AmoRecs, v \in MemWords :
      LET r1 == SetX(rv, ir.rd, v)
      IN  AmoOp("amoswapw", ir, v, r1, r1.X[ir.rs2])

amoaddw ==
    \E ir \in AmoRecs, v \in MemWords :
      LET r1 == SetX(rv, ir.rd, v)
      IN  AmoOp("amoaddw", ir, v, r1, Add32(r1.X[ir.rd], r1.X[ir.rs2]))

amoxorw ==
    \E ir \in AmoRecs, v \in MemWords :
      LET r1 == SetX(rv, ir.rd, v)
      IN  AmoOp("amoxorw", ir, v, r1, Xor32(r1.X[ir.rd], r1.X[ir.rs2]))

amoandw ==
    \E ir \in AmoRecs, v \in MemWords :
      LET r1 == SetX(rv, ir.rd, v)
      IN  AmoOp("amoandw", ir, v, r1, And32(r1.X[ir.rd], r1.X[ir.rs2]))

amoorw ==
    \E ir \in AmoRecs, v \in MemWords :
      LET r1 == SetX(rv, ir.rd, v)
      IN  AmoOp("amoorw", ir, v, r1, Or32(r1.X[ir.rd], r1.X[ir.rs2]))

amominw ==
    \E ir \in AmoRecs, v \in MemWords :
      LET r1 == SetX(rv, ir.rd, v)
      IN  AmoOp("amominw", ir, v, r1,
                IF ULt(r1.X[ir.rd], r1.X[ir.rs2]) THEN r1.X[ir.rd] ELSE r1.X[ir.rs2])

amomaxw ==
    \E ir \in AmoRecs, v \in MemWords :
      LET r1 == SetX(rv, ir.rd, v)
      IN  AmoOp("amomaxw", ir, v, r1,
                IF ULt(r1.X[ir.rs2], r1.X[ir.rd]) THEN r1.X[ir.rd] ELSE r1.X[ir.rs2])

amominuw ==
    \E ir \in AmoRecs, v \in MemWords :
      LET r1 == SetX(rv, ir.rd, v)
      IN  AmoOp("amominuw", ir, v, r1,
                IF ULt(r1.X[ir.rd], r1.X[ir.rs2]) THEN r1.X[ir.rd] ELSE r1.X[ir.rs2])

amomaxuw ==
    \E ir \in AmoRecs, v \in MemWords :
      LET r1 == SetX(rv, ir.rd, v)
      IN  AmoOp("amomaxuw", ir, v, r1,
                IF ULt(r1.X[ir.rs2], r1.X[ir.rd]) THEN r1.X[ir.rd] ELSE r1.X[ir.rs2])

flw ==
    \E ir \in WithNext({Ir(1, 1, 0, imm) : imm \in {0, 1}}) :
      \E data \in MemWords :
        NextOp("flw", ir, [rv EXCEPT !.F[ir.rd] = data], 4,
               Call("mem_read_w", Add32(rv.X[ir.rs1], ir.imm), data))

fsw ==
    \E ir \in WithNext({Ir(0, 1, 1, imm) : imm \in {0, 1}}) :
      NextOp("fsw", ir, rv, 4,
             Call("mem_write_w", Add32(rv.X[ir.rs1], ir.imm), rv.F[ir.rs2]))

(***************************************************************************)
(* RV32C                                                                   *)
(***************************************************************************)

\* Records of the compressed forms; rd', rs1' and rs2' name x8 or x9.
CShRecs == WithNext({[Ir(0, 8, 0, 0) EXCEPT !.shamt = k] : k \in {0, 1, 31}})
CaRecs == WithNext({Ir(9, 9, 8, 0)})
CbRecs == WithLinks({Ir(0, rs1, 0, 8) : rs1 \in {8, 9}})
CjRecs == WithTaken({Ir(0, 0, 0, 8)})
CjrRecs == WithTaken({Ir(0, rs1, 0, 0) : rs1 \in {1, 3}})

caddi4spn ==
    \E ir \in WithNext({Ir(8, 0, 0, 4)}) :
      WriteRd("caddi4spn", ir, Add32(rv.X[rv_reg_sp], ir.imm % 65536), 2)

clw ==
    \E ir \in WithNext({Ir(8, rs1, 0, 4) : rs1 \in {8, 9}}) :
      LoadOp("clw", ir, Add32(rv.X[ir.rs1], ir.imm), 3, TRUE, "mem_read_w", MemWords, 2)

csw ==
    \E ir \in WithNext({Ir(0, rs1, 9, 4) : rs1 \in {8, 9}}) :
      StoreOp("csw", ir, Add32(rv.X[ir.rs1], ir.imm), 3, TRUE, "mem_write_w", rv.X[ir.rs2], 2)

cnop == \E ir \in WithNext({Ir(0, 0, 0, 0)}) : NextOp("cnop", ir, rv, 2, io)

caddi ==
    \E ir \in WithNext({Ir(1, 0, 0, -1)}) :
      WriteRd("caddi", ir, Add32(rv.X[ir.rd], ir.imm), 2)

cjal ==
    \E ir \in CjRecs :
      LET pc1 == Add32(PC, ir.imm)
          r1 == SetX(rv, rv_reg_ra, Add32(PC, 2))
      IN  IF insn_is_misaligned(pc1)
            THEN Retire("cjal", ir, MisalignExc(r1, "insn", TRUE, pc1, pc1), pc1, "false", io)
          ELSE IF ir.branch_taken THEN Retire("cjal", ir, r1, pc1, "tail", io)
          ELSE Retire("cjal", ir, EndInsn(r1, pc1), pc1, "true", io)

cli == \E ir \in WithNext({Ir(rd, 0, 0, 5) : rd \in {0, 1}}) : WriteRd("cli", ir, ir.imm, 2)

caddi16sp ==
    \E ir \in WithNext({Ir(2, 0, 0, 16)}) :
      WriteRd("caddi16sp", ir, Add32(rv.X[ir.rd], ir.imm), 2)

clui == \E ir \in WithNext({Ir(1, 0, 0, 4096)}) : WriteRd("clui", ir, ir.imm, 2)

csrli ==
    \E ir \in CShRecs :
      NextOp("csrli", ir, SetX(rv, ir.rs1, Shr32(rv.X[ir.rs1], ir.shamt)), 2, io)

\* C.SRAI without its sign-fill loop.
csrai_nofill(x, mask, i, shamt) == x

RECURSIVE csrai_fill(_, _, _, _)
\* The loop of C.SRAI: OR the sign mask, shifted right by i, for each i < shamt.
\* (The test on y has each turn's word computed before the next turn starts.)
csrai_fill(x, mask, i, shamt) ==
    IF i >= shamt THEN x
    ELSE LET y == Or32(x, Shr32(mask, i))
         IN  IF y \in Int THEN csrai_fill(y, mask, i + 1, shamt) ELSE y

csrai ==
    \E ir \in CShRecs :
      LET mask == And32(MIN32, rv.X[ir.rs1])
      IN  NextOp("csrai", ir,
                 SetX(rv, ir.rs1, csrai_fill(Shr32(rv.X[ir.rs1], ir.shamt), mask, 0, ir.shamt)),
                 2, io)

candi ==
    \E ir \in WithNext({Ir(0, 8, 0, 3)}) :
      NextOp("candi", ir, SetX(rv, ir.rs1, And32(rv.X[ir.rs1], ir.imm)), 2, io)

csub == \E ir \in CaRecs : WriteRd("csub", ir, Sub32(rv.X[ir.rs1], rv.X[ir.rs2]), 2)

cxor == \E ir \in CaRecs : WriteRd("cxor", ir, Xor32(rv.X[ir.rs1], rv.X[ir.rs2]), 2)

cor == \E ir \in CaRecs : WriteRd("cor", ir, Or32(rv.X[ir.rs1], rv.X[ir.rs2]), 2)

cand == \E ir \in CaRecs : WriteRd("cand", ir, And32(rv.X[ir.rs1], rv.X[ir.rs2]), 2)

cj ==
    \E ir \in CjRecs :
      LET pc1 == Add32(PC, ir.imm)
      IN  IF insn_is_misaligned(pc1)
            THEN Retire("cj", ir, MisalignExc(rv, "insn", TRUE, pc1, pc1), pc1, "false", io)
          ELSE IF ir.branch_taken THEN Retire("cj", ir, rv, pc1, "tail", io)
          ELSE Retire("cj", ir, EndInsn(rv, pc1), pc1, "true", io)

\* The body shared by C.BEQZ and C.BNEZ; cond is the test that leaves the
\* branch untaken.
CBranch(op, ir, cond) ==
    LET pc1 == Add32(PC, ir.imm)
    IN  IF cond
          THEN IF ~ir.branch_untaken THEN NextOp(op, ir, rv, 2, io)
               ELSE Retire(op, ir, rv, Add32(PC, 2), "tail", io)
        ELSE IF ir.branch_taken THEN Retire(op, ir, rv, pc1, "tail", io)
        ELSE Retire(op, ir, EndInsn(rv, pc1), pc1, "true", io)

cbeqz == \E ir \in CbRecs : CBranch("cbeqz", ir, rv.X[ir.rs1] # 0)

cbnez == \E ir \in CbRecs : CBranch("cbnez", ir, rv.X[ir.rs1] = 0)

cslli ==
    \E ir \in WithNext({Ir(1, 0, 0, k) : k \in {0, 1, 31}}) :
      WriteRd("cslli", ir, Shl32(rv.X[ir.rd], ir.imm % 256), 2)

clwsp ==
    \E ir \in WithNext({Ir(1, 0, 0, 4)}) :
      LoadOp("clwsp", ir, Add32(rv.X[rv_reg_sp], ir.imm), 3, TRUE, "mem_read_w", MemWords, 2)

cjr ==
    \E ir \in CjrRecs :
      LET pc1 == rv.X[ir.rs1]
      IN  IF ir.branch_taken THEN Retire("cjr", ir, rv, pc1, "tail", io)
          ELSE Retire("cjr", ir, EndInsn(rv, pc1), pc1, "true", io)

cmv == \E ir \in WithNext({Ir(rd, 0, 8, 0) : rd \in {1, 2}}) : WriteRd("cmv", ir, rv.X[ir.rs2], 2)

cebreak == HostTrap("cebreak", TRUE, "on_ebreak", 2)

cjalr ==
    \E ir \in CjrRecs :
      LET jump_to == rv.X[ir.rs1]
          r1 == SetX(rv, rv_reg_ra, Add32(PC, 2))
      IN  IF insn_is_misaligned(jump_to)
            THEN Retire("cjalr", ir, MisalignExc(r1, "insn", TRUE, jump_to, jump_to),
                        jump_to, "false", io)
          ELSE IF ir.branch_taken THEN Retire("cjalr", ir, r1, jump_to, "tail", io)
          ELSE Retire("cjalr", ir, EndInsn(r1, jump_to), jump_to, "true", io)

cadd ==
    \E ir \in WithNext({Ir(1, 1, 2, 0)}) :
      WriteRd("cadd", ir, Add32(rv.X[ir.rs1], rv.X[ir.rs2]), 2)

cswsp ==
    \E ir \in WithNext({Ir(0, 0, 1, 4)}) :
      StoreOp("cswsp", ir, Add32(rv.X[rv_reg_sp], ir.imm), 3, TRUE, "mem_write_w", rv.X[ir.rs2], 2)

Next ==
    \/ Dispatch
    \/ nop \/ lui \/ auipc \/ jal \/ jalr
    \/ beq \/ bne \/ blt \/ bge \/ bltu \/ bgeu
    \/ lb \/ lh \/ lw \/ lbu \/ lhu \/ sb \/ sh \/ sw
    \/ addi \/ slti \/ sltiu \/ xori \/ ori \/ andi \/ slli \/ srli \/ srai
    \/ add \/ sub \/ sll \/ slt \/ sltu \/ xor \/ srl \/ sra \/ or \/ and
    \/ ecall \/ ebreak \/ wfi \/ uret \/ sret \/ hret \/ mret \/ fencei
    \/ mul \/ mulh \/ mulhsu \/ mulhu \/ div \/ divu \/ rem \/ remu
    \/ lrw \/ scw \/ flw \/ fsw
    \/ amoswapw \/ amoaddw \/ amoxorw \/ amoandw \/ amoorw
    \/ amominw \/ amomaxw \/ amominuw \/ amomaxuw
    \/ caddi4spn \/ clw \/ csw \/ cnop \/ caddi \/ cjal \/ cli \/ caddi16sp \/ clui
    \/ csrli \/ csrai \/ candi \/ csub \/ cxor \/ cor \/ cand \/ cj \/ cbeqz \/ cbnez
    \/ cslli \/ clwsp \/ cjr \/ cmv \/ cebreak \/ cjalr \/ cadd \/ cswsp

Spec == Init /\ [][Next]_vars

(***************************************************************************)
(* Arithmetic, shift and branch instructions on drawn operands             *)
(***************************************************************************)

\* Operand values for x1 and x2: zero, units, small values of both signs and
\* the two ends of the int32_t range.
ArithVals == {0, 1, -1, 3, -8, 7, MIN32, MAX32}

InitArith ==
    \E a \in ArithVals, b \in ArithVals :
      InitWith([RegFile EXCEPT ![1] = a, ![2] = b], 4096)

NextArith == Dispatch \/ div \/ divu \/ rem \/ remu \/ mul \/ mulh \/ mulhsu \/ mulhu

SpecArith == InitArith /\ [][NextArith]_vars

NextShift == Dispatch \/ slli \/ srli \/ srai \/ sll \/ srl \/ sra

SpecShift == InitArith /\ [][NextShift]_vars

\* The compressed shifts work on x8 (C.SRLI, C.SRAI) and x1 (C.SLLI).
InitCShift ==
    \E a \in ArithVals : InitWith([RegFile EXCEPT ![1] = a, ![8] = a], 4096)

NextCShift == Dispatch \/ csrli \/ csrai \/ cslli

SpecCShift == InitCShift /\ [][NextCShift]_vars

NextBranch ==
    Dispatch \/ beq \/ bne \/ blt \/ bge \/ bltu \/ bgeu \/ cbeqz \/ cbnez

SpecBranch == InitArith /\ [][NextBranch]_vars

(***************************************************************************)
(* Tier-1 emission sequences                                               *)
(***************************************************************************)

\* The X64 sequences of JALR, BLT, BLTU, SLTI and SLT, operand for operand.
X64_jalr ==
    <<<<"cond", "rd">>, <<"ld_imm", "RAX", "pc", "4">>, <<"st", "S32", "RAX", "X", "rd">>,
      <<"end">>, <<"ld", "S32", "RAX", "X", "rs1">>,
      <<"alu32_imm", "32", "0x81", "0", "RAX", "imm">>,
      <<"alu32_imm", "32", "0x81", "4", "RAX", "~1U">>,
      <<"st", "S32", "RAX", "PC">>, <<"exit">>>>

X64_blt ==
    <<<<"ld", "S32", "RAX", "X", "rs1">>, <<"ld", "S32", "RBX", "X", "rs2">>,
      <<"cmp", "RBX", "RAX">>, <<"set_jmp_off">>, <<"jcc", "0x8c">>,
      <<"cond", "branch_untaken">>, <<"jmp", "pc", "4">>, <<"end">>,
      <<"ld_imm", "RAX", "pc", "4">>, <<"st", "S32", "RAX", "PC">>, <<"exit">>,
      <<"jmp_off">>, <<"cond", "branch_taken">>, <<"jmp", "pc", "imm">>, <<"end">>,
      <<"ld_imm", "RAX", "pc", "imm">>, <<"st", "S32", "RAX", "PC">>, <<"exit">>>>

X64_bltu ==
    <<<<"ld", "S32", "RAX", "X", "rs1">>, <<"ld", "S32", "RBX", "X", "rs2">>,
      <<"cmp", "RBX", "RAX">>, <<"set_jmp_off">>, <<"jcc", "0x82">>,
      <<"cond", "branch_untaken">>, <<"jmp", "pc", "4">>, <<"end">>,
      <<"ld_imm", "RAX", "pc", "4">>, <<"st", "S32", "RAX", "PC">>, <<"exit">>,
      <<"jmp_off">>, <<"cond", "branch_taken">>, <<"jmp", "pc", "imm">>, <<"end">>,
      <<"ld_imm", "RAX", "pc", "imm">>, <<"st", "S32", "RAX", "PC">>, <<"exit">>>>

X64_slti ==
    <<<<"ld", "S32", "RAX", "X", "rs1">>, <<"cmp_imm", "RAX", "imm">>,
      <<"st_imm", "S32", "rd", "1">>, <<"set_jmp_off">>, <<"jcc", "0x82">>,
      <<"st_imm", "S32", "rd", "0">>, <<"jmp_off">>>>

X64_slt ==
    <<<<"ld", "S32", "RAX", "X", "rs1">>, <<"ld", "S32", "RBX", "X", "rs2">>,
      <<"cmp", "RBX", "RAX">>, <<"st_imm", "S32", "rd", "1">>, <<"set_jmp_off">>,
      <<"jcc", "0x82">>, <<"st_imm", "S32", "rd", "0">>, <<"jmp_off">>>>

\* An immediate operand of an emitted operation: a field of the record or a
\* literal.
X64Imm(ir, t) ==
    CASE t = "imm" -> ir.imm
      [] t = "0" -> 0
      [] t = "1" -> 1
      [] t = "4" -> 4
      [] t = "~1U" -> -2

\* jcc after cmp: the x86 condition op read on dst - src of the compare.
X64Cond(op, dst, src) ==
    CASE op = "0x82" -> ULt(dst, src)
      [] op = "0x83" -> ~ULt(dst, src)
      [] op = "0x84" -> dst = src
      [] op = "0x85" -> dst # src
      [] op = "0x8c" -> SLt(dst, src)
      [] op = "0x8d" -> ~SLt(dst, src)

\* One emitted operation o on the host state h: host registers reg, the
\* operands cmp of the last compare, the guest's X and PC, and where control
\* is: running, skipping to jmp_off after a jcc that jumped, inside a
\* cond .. end whose predicate is false (nothing was emitted), or out of the
\* sequence through exit or jmp.
X64Step(h, ir, pc, o) ==
    IF h.at = "out" THEN h
    ELSE IF h.at = "off" THEN (IF o[1] = "end" THEN [h EXCEPT !.at = "run"] ELSE h)
    ELSE IF h.at = "skip" THEN (IF o[1] = "jmp_off" THEN [h EXCEPT !.at = "run"] ELSE h)
    ELSE CASE o[1] = "cond" ->
                IF (o[2] = "rd" /\ ir.rd # 0) \/ (o[2] # "rd" /\ ir[o[2]])
                  THEN h ELSE [h EXCEPT !.at = "off"]
           [] o[1] \in {"end", "set_jmp_off", "jmp_off"} -> h
           [] o[1] = "ld_imm" -> [h EXCEPT !.reg[o[2]] = Add32(pc, X64Imm(ir, o[4]))]
           [] o[1] = "ld" -> [h EXCEPT !.reg[o[3]] = h.X[ir[o[5]]]]
           [] o[1] = "st" ->
                IF o[4] = "PC" THEN [h EXCEPT !.PC = h.reg[o[3]]]
                ELSE [h EXCEPT !.X[ir[o[5]]] = h.reg[o[3]]]
           [] o[1] = "st_imm" -> [h EXCEPT !.X[ir[o[3]]] = X64Imm(ir, o[4])]
           [] o[1] = "alu32_imm" ->
                [h EXCEPT !.reg[o[5]] =
                   IF o[4] = "0" THEN Add32(h.reg[o[5]], X64Imm(ir, o[6]))
                   ELSE And32(h.reg[o[5]], X64Imm(ir, o[6]))]
           [] o[1] = "cmp" -> [h EXCEPT !.cmp = <<h.reg[o[3]], h.reg[o[2]]>>]
           [] o[1] = "cmp_imm" -> [h EXCEPT !.cmp = <<h.reg[o[2]], X64Imm(ir, o[3])>>]
           [] o[1] = "jcc" ->
                IF X64Cond(o[2], h.cmp[1], h.cmp[2]) THEN [h EXCEPT !.at = "skip"] ELSE h
           [] o[1] = "jmp" -> [h EXCEPT !.PC = Add32(pc, X64Imm(ir, o[3])), !.at = "out"]
           [] o[1] = "exit" -> [h EXCEPT !.at = "out"]

RECURSIVE X64Run(_, _, _, _, _)
\* The operations of seq from the i-th on.
X64Run(seq, h, ir, pc, i) ==
    IF i > Len(seq) THEN h
    ELSE X64Run(seq, X64Step(h, ir, pc, seq[i]), ir, pc, i + 1)

\* The machine code emitted for one record has run: the guest registers and,
\* when the sequence left through exit or jmp, rv->PC are what it stored; a
\* sequence that runs to its end falls into the code of the next record.
Emitted(op, ir, seq) ==
    LET h0 == [reg |-> [r \in {"RAX", "RBX", "RCX"} |-> 0], cmp |-> <<0, 0>>,
               X |-> rv.X, PC |-> rv.PC, at |-> "run"]
        h == X64Run(seq, h0, ir, PC, 1)
    IN  IF h.at = "out"
          THEN Retire(op, ir, [rv EXCEPT !.X = h.X, !.PC = h.PC], h.PC, "true", io)
        ELSE Retire(op, ir, [rv EXCEPT !.X = h.X], Add32(PC, 4), "tail", io)

jit_jalr == \E ir \in JrRecs : Emitted("jit_jalr", ir, X64_jalr)

jit_blt == \E ir \in BRecs : Emitted("jit_blt", ir, X64_blt)

jit_bltu == \E ir \in BRecs : Emitted("jit_bltu", ir, X64_bltu)

jit_slti == \E ir \in IRecs : Emitted("jit_slti", ir, X64_slti)

jit_slt == \E ir \in RRecs : Emitted("jit_slt", ir, X64_slt)

NextJit == Dispatch \/ jit_jalr \/ jit_blt \/ jit_bltu \/ jit_slti \/ jit_slt

SpecJit == InitArith /\ [][NextJit]_vars

(***************************************************************************)
(* Tail-chained execution against one record per dispatch                  *)
(***************************************************************************)

InitChain == \E pc \in EntryPCs : InitAs(RegFile, pc, "chain", MaxInsns)

\* The logged run has returned to the outer loop: keep the state it ended in
\* and start again from the boot state, now with every block one record long
\* and no successor linked, so each next record is found through the block map.
Replay ==
    /\ hist.mode = "chain"
    /\ ctl = "outer"
    /\ hist.n > 0
    /\ rv' = hist.boot
    /\ cycle' = 0
    /\ PC' = 0
    /\ ret' = TRUE
    /\ io' = <<>>
    /\ last' = NoInsn(hist.boot.X)
    /\ hist' = [hist EXCEPT !.n = 0, !.chain = 0, !.entry = 0, !.mode = "step",
                            !.snap = [rv |-> rv, io |-> io, ret |-> ret]]
    /\ UNCHANGED <<ctl, site>>
    /\ UNCHANGED utils

NextChain ==
    \/ Dispatch \/ Replay
    \/ addi \/ sw \/ jal \/ jalr \/ beq \/ cbnez \/ cj \/ cjr
    \/ mret \/ fencei \/ wfi

SpecChain == InitChain /\ [][NextChain]_vars

(***************************************************************************)
(* A guest loop under a cycle budget                                       *)
(***************************************************************************)

\* The guest program: at 0xFFFFFFFC a JAL x1 to address 4, there the block
\* ADDI x1, x1, -1; JAL x0, 0, and a JAL x0, 0 (a jump to itself) at every
\* other address, among them the entry 0x1000.
Prog(pc) ==
    CASE pc = -4 -> [op |-> "jal", ir |-> Ir(1, 0, 0, 8)]
      [] pc = 4 -> [op |-> "addi", ir |-> [Ir(1, 1, 0, -1) EXCEPT !.next = TRUE]]
      [] OTHER -> [op |-> "jal", ir |-> Ir(0, 0, 0, 0)]

\* The record that has just run is the program's record at the PC it ran at,
\* with branch_taken linked or not.
Fetched ==
    /\ last'.op = Prog(PC).op
    /\ [last'.ir EXCEPT !.branch_taken = FALSE] = Prog(PC).ir

InitLive == \E pc \in EntryPCs : InitAs(RegFile, pc, "live", CycleBudget)

NextLive == Dispatch \/ (jal /\ Fetched) \/ (addi /\ Fetched)

\* The interpreter never pauses of its own accord: while a record or the
\* outer loop can run, it does.
SpecLive == InitLive /\ [][NextLive]_vars /\ WF_vars(NextLive)

(***************************************************************************)
(* utils.c: the set of keys                                                *)
(***************************************************************************)

\* HASH_FUNC_IMPL(set_hash, SET_SIZE_BITS, 1 << SET_SIZE_BITS): a function of
\* the key into the SET_SIZE buckets, here whichever one the run started with.
set_hash(key) == lib.hash[key]

\* The scan of set_add and set_has: count runs up from 0 while
\* set->table[index][count] is nonzero and is not key.  The result is the
\* count the scan stops at, SET_SLOTS_SIZE when it runs off the bucket.
ScanStop(row, key) ==
    LET stops == {c \in Slots : row[c] = 0 \/ row[c] = key}
    IN  IF stops = {} THEN SET_SLOTS_SIZE
        ELSE CHOOSE c \in stops : \A d \in stops : c <= d

\* A helper has returned (or stopped in fault) and every instruction variable
\* is as it was.
Called(fn, key, res, fault, added, table) ==
    /\ lib.fault = "none"
    /\ lib' = [lib EXCEPT !.fn = fn, !.key = key, !.res = res, !.fault = fault,
                          !.added = added, !.had = key \in lib.added,
                          !.prev = set]
    /\ set' = table
    /\ UNCHANGED <<machine, san>>

set_reset == Called("set_reset", 0, FALSE, "none", {}, ZeroSet)

\* set_add: a zero slot ends the scan and takes the key (true); the key
\* found in a nonzero slot ends it with false.  With the bucket full of other
\* keys the loop condition reads table[index][SET_SLOTS_SIZE]: a zero there
\* fails the assert after the loop (or, asserts compiled out, the store goes
\* past the bucket), anything else fails the assert in the loop (or the scan
\* goes on over foreign memory).
set_add ==
    \E key \in Keys :
      LET index == set_hash(key)
          count == ScanStop(set[index], key)
      IN  IF count = SET_SLOTS_SIZE
            THEN \E f \in {"read", "assert", "write"}, r \in BOOLEAN :
                   Called("set_add", key, r, f, lib.added \cup {key}, set)
          ELSE IF set[index][count] = 0
            THEN Called("set_add", key, TRUE, "none", lib.added \cup {key},
                        [set EXCEPT ![index][count] = key])
          ELSE Called("set_add", key, FALSE, "none", lib.added \cup {key}, set)

\* set_has: the key found in a nonzero slot gives true, a zero slot false;
\* with the bucket full of other keys the loop condition reads
\* table[index][SET_SLOTS_SIZE].
set_has ==
    \E key \in Keys :
      LET index == set_hash(key)
          count == ScanStop(set[index], key)
      IN  IF count = SET_SLOTS_SIZE
            THEN \E f \in {"read", "assert"}, r \in BOOLEAN :
                   Called("set_has", key, r, f, lib.added, set)
          ELSE Called("set_has", key, set[index][count] # 0, "none", lib.added, set)

InitSet ==
    /\ InitCore(RegFile, 4096, "run", MaxInsns)
    /\ site = NoSite(FALSE, {})
    /\ set = ZeroSet
    /\ \E h \in [Keys -> Buckets] : lib = NoCall(h)
    /\ san = NoPath

NextSet == set_reset \/ set_add \/ set_has

SpecSet == InitSet /\ [][NextSet]_vars

(***************************************************************************)
(* utils.c: sanitize_path                                                  *)
(***************************************************************************)

\* input[i] and ret[i] with the C index i from 0; input[n] is never read.
In(s, i) == s.input[i + 1]
Out(s, i) == s.ret[i + 1]

\* ret[w] = c; w++;  The store lands in ret when w <= n.
Put(s, c) ==
    [s EXCEPT !.ret = IF s.w <= s.n THEN [@ EXCEPT ![s.w + 1] = c] ELSE @,
              !.over = @ \/ s.w > s.n,
              !.w = @ + 1]

\* w--; while (w > dotdot && ret[w] != '/') w--;
RECURSIVE Backtrack(_, _)
Backtrack(s, w) ==
    IF w > s.dotdot /\ Out(s, w) # "/" THEN Backtrack(s, w - 1) ELSE w

\* What a caller reads at the returned pointer: the bytes before the first
\* NUL of ret, or, ret holding none, all of ret followed by tail, the bytes
\* after the allocation up to their first NUL.
StringAt(buf, tail) ==
    LET nuls == {i \in 1 .. Len(buf) : buf[i] = NUL}
    IN  IF nuls = {} THEN buf \o tail
        ELSE SubSeq(buf, 1, (CHOOSE i \in nuls : \A j \in nuls : i <= j) - 1)

Returned(s, tail) == [s EXCEPT !.at = "done", !.out = StringAt(s.ret, tail)]

Tails == {<<>>} \cup {<<c>> : c \in PathChars}

\* Lines 87-117: the length, the zeroed buffer, the empty input, the leading
\* slash.
sanitize_path ==
    /\ san.at \in {"idle", "done"}
    /\ \E input \in Paths :
         LET n == IF Len(input) < MAX_PATH_LEN THEN Len(input) ELSE MAX_PATH_LEN
             s0 == [NoPath EXCEPT !.input = input, !.n = n,
                                  !.ret = [i \in 1 .. n + 1 |-> NUL]]
         IN  IF n = 0
               THEN \E tail \in Tails : san' = Returned(Put(s0, "."), tail)
             ELSE IF input[1] = "/"
               THEN san' = [Put(s0, "/") EXCEPT !.is_root = TRUE, !.r = 1,
                                                !.dotdot = 1, !.at = "scan"]
             ELSE san' = [s0 EXCEPT !.at = "scan"]
    /\ UNCHANGED <<machine, set, lib>>

\* One turn of while (r < n), lines 119-155, up to the for loop of a real
\* path element.
san_scan ==
    /\ san.at = "scan"
    /\ san.r < san.n
    /\ LET s == san
           r == s.r
           n == s.n
       IN  san' =
             IF In(s, r) = "/" THEN [s EXCEPT !.r = r + 1]
             ELSE IF In(s, r) = "." /\ (r + 1 = n \/ In(s, r + 1) = "/")
               THEN [s EXCEPT !.r = r + 1]
             ELSE IF In(s, r) = "." /\ In(s, r + 1) = "."
                       /\ (r + 2 = n \/ In(s, r + 2) = "/")
               THEN LET s2 == [s EXCEPT !.r = r + 2]
                    IN  IF s.w > s.dotdot
                          THEN [s2 EXCEPT !.w = Backtrack(s, s.w - 1)]
                        ELSE IF ~s.is_root
                          THEN LET s3 == IF s.w > 0 THEN Put(s2, "/") ELSE s2
                                   s4 == Put(Put(s3, "."), ".")
                               IN  [s4 EXCEPT !.dotdot = s4.w]
                        ELSE s2
             ELSE LET slash == (s.is_root /\ s.w # 1) \/ (~s.is_root /\ s.w # 0)
                  IN  [(IF slash THEN Put(s, "/") ELSE s) EXCEPT !.at = "copy"]
    /\ UNCHANGED <<machine, set, lib>>

\* for (; r < n && input[r] != '/'; r++) { ret[w] = input[r]; w++; }
san_copy ==
    /\ san.at = "copy"
    /\ san' = IF san.r < san.n /\ In(san, san.r) # "/"
                THEN [Put(san, In(san, san.r)) EXCEPT !.r = @ + 1]
              ELSE [san EXCEPT !.at = "scan"]
    /\ UNCHANGED <<machine, set, lib>>

\* Lines 164-175: "." for an empty result, memset(ret + w, '\0', n + 1 - w),
\* return ret.  With w > n + 1 the size_t length wraps and the memset leaves
\* the buffer.
san_return ==
    /\ san.at = "scan"
    /\ san.r >= san.n
    /\ LET s1 == IF san.w = 0 THEN Put(san, ".") ELSE san
           s2 == [s1 EXCEPT !.ret = [i \in 1 .. Len(@) |->
                                       IF i > s1.w THEN NUL ELSE @[i]],
                            !.over = @ \/ s1.w > s1.n + 1]
       IN  \E tail \in Tails : san' = Returned(s2, tail)
    /\ UNCHANGED <<machine, set, lib>>

InitPath ==
    /\ InitCore(RegFile, 4096, "run", MaxInsns)
    /\ site = NoSite(FALSE, {})
    /\ UtilsIdle

NextPath == sanitize_path \/ san_scan \/ san_copy \/ san_return

SpecPath == InitPath /\ [][NextPath]_vars

(***************************************************************************)
(* Blocks, links and the branch history table                              *)
(***************************************************************************)

core == <<rv, cycle, PC, ctl, ret, io, last, hist>>

\* The address of the jump site, and the addresses an indirect jump goes to.
SitePC == CHOOSE p \in EntryPCs : p > 0
JumpPCs == {0, 8, 16}

\* The successors of the JAL / branch site: its target at offset 8, and the
\* instruction after it.
TakenPC == Add32(SitePC, 8)
UntakenPC == Add32(SitePC, IF site.op = "cbeqz" THEN 2 ELSE 4)

\* The outer loop finds no block for pc and builds one (spec 4.2); with the
\* JIT the block cache indexes it.
block_create ==
    /\ ctl = "outer" /\ ~site.fault /\ hist.n < hist.max
    /\ \E pc \in site.pcs :
         /\ site.block_map[pc] = NULL
         /\ site.born[pc] < MaxGen
         /\ site' = [site EXCEPT !.born[pc] = @ + 1,
                                 !.block_map[pc] = site.born[pc] + 1,
                                 !.cache = IF site.jit THEN @ \cup {pc} ELSE @]
    /\ UNCHANGED core /\ UNCHANGED utils

\* The block map lets the block of pc go; the linker nulls the branch_taken
\* and branch_untaken that point into it (spec 3, invariant 2).  Nothing is
\* said of the history tables, which stay as they are.
block_evict ==
    /\ ctl = "outer" /\ ~site.fault /\ hist.n < hist.max
    /\ \E pc \in site.pcs :
         /\ site.block_map[pc] # NULL
         /\ site' = [site EXCEPT
              !.block_map[pc] = NULL,
              !.cache = @ \ {pc},
              !.hot = @ \ {pc},
              !.branch_taken = IF pc = TakenPC THEN NULL ELSE @,
              !.branch_untaken = IF pc = UntakenPC THEN NULL ELSE @]
    /\ UNCHANGED core /\ UNCHANGED utils

\* Guest code other than the jump site has run, chained behind the site or in
\* dispatches of its own; the outer loop is back with rv->PC at the site and
\* x1 and x8 holding some target.
guest_code ==
    /\ ~site.fault
    /\ \/ ctl = "insn" /\ PC # SitePC
       \/ ctl = "outer" /\ rv.PC # SitePC
    /\ \E t \in JumpPCs : rv' = [rv EXCEPT !.X[1] = t, !.X[8] = t, !.PC = SitePC]
    /\ ctl' = "outer"
    /\ ret' = TRUE
    /\ UNCHANGED <<cycle, PC, io, last, hist, site>> /\ UNCHANGED utils

\* The table as the next jump will find it, what it did, and whether it
\* dispatched a record that is not there: NULL, or the head of a block let go.
Went(t, how, pc, to, held) ==
    [site EXCEPT !.branch_table = [PC |-> t.PC, target |-> t.target, idx |-> t.idx],
                 !.written = t.written, !.order = t.order,
                 !.prev = [PC |-> site.branch_table.PC,
                           target |-> site.branch_table.target,
                           idx |-> site.branch_table.idx,
                           written |-> site.written, order |-> site.order],
                 !.went = [how |-> how, pc |-> pc, to |-> to, held |-> held,
                           had |-> NULL, now |-> NULL],
                 !.fault = (how = "hit" /\ (to = NULL \/ to # held))]

\* A table whose round-robin index never moves.
NextIdx_stuck(idx) == idx

\* idx = (idx + 1) % HISTORY_SIZE
NextIdx(idx) == (idx + 1) % HISTORY_SIZE

\* A scan that looks at the first slot only.
Hits_first(t, pc) == {i \in HSlots : i = 0 /\ t.PC[i] = pc}

\* The slots the linear scan matches: those whose PC is pc.
Hits(t, pc) == {i \in HSlots : t.PC[i] = pc}

\* LOOKUP_OR_UPDATE_BRANCH_HISTORY_TABLE() for the jump to pc: the first slot
\* whose PC is pc is a hit; on a miss with a block in the block map the slot
\* at idx takes (pc, block->ir_head) and idx moves on.  The result is the
\* site after the macro; its went.to is the record tail-called, NULL when the
\* macro falls through.
LOOKUP_OR_UPDATE_BRANCH_HISTORY_TABLE(pc) ==
    LET t == [site.branch_table EXCEPT !.PC = @] @@
             [written |-> site.written, order |-> site.order]
        hits == Hits(t, pc)
        block == site.block_map[pc]
    IN  IF hits # {}
          THEN LET i == CHOOSE h \in hits : \A j \in hits : h <= j
               IN  Went(t, "hit", pc, t.target[i], block)
        ELSE IF block # NULL
          THEN Went([t EXCEPT !.PC[t.idx] = pc,
                              !.target[t.idx] = block,
                              !.idx = NextIdx(t.idx),
                              !.written = @ \cup {t.idx},
                              !.order = Append(SelectSeq(@, LAMBDA j : j # t.idx), t.idx)],
                    "miss", pc, block, block)
        ELSE Went(t, "miss", pc, NULL, NULL)

\* JALR x0, 0(x1) at the jump site, with its branch history table.  Built
\* with the JIT the body has no lookup and returns to the outer loop.
jalr_site ==
    /\ ~site.fault
    /\ PC = SitePC
    /\ \E ir \in {Ir(0, 1, 0, 0)} :
         LET pc == PC
             pc1 == ClearBit0(Add32(rv.X[ir.rs1], ir.imm))
             r1 == IF ir.rd # 0 THEN SetX(rv, ir.rd, Add32(pc, 4)) ELSE rv
             s1 == LOOKUP_OR_UPDATE_BRANCH_HISTORY_TABLE(pc1)
         IN  IF insn_is_misaligned(pc1)
               THEN /\ Run("jalr", ir, MisalignExc(r1, "insn", FALSE, pc, pc1), pc1,
                           "false", io)
                    /\ UNCHANGED site
             ELSE IF site.jit
               THEN Run("jalr", ir, EndInsn(r1, pc1), pc1, "true", io) /\ UNCHANGED site
             ELSE IF s1.went.how = "hit" \/ s1.went.to # NULL
               THEN /\ Run("jalr", [ir EXCEPT !.branch_taken = TRUE], r1, pc1, "tail", io)
                    /\ site' = s1
             ELSE Run("jalr", ir, EndInsn(r1, pc1), pc1, "true", io) /\ site' = s1

\* The table of the site is new: no slot has been stored to.  What a new
\* slot holds is the allocator's choice, all-zero or all-ones words; its
\* target is NULL in both.
InitTable ==
    /\ \E t \in JumpPCs : InitCore([RegFile EXCEPT ![1] = t], SitePC, "run", SiteInsns)
    /\ UtilsIdle
    /\ \E fill \in {0, -1} :
         site = [NoSite(FALSE, JumpPCs) EXCEPT
                   !.branch_table.PC = [i \in HSlots |-> fill]]

NextTable == Dispatch \/ block_create \/ block_evict \/ guest_code \/ jalr_site

SpecTable == InitTable /\ [][NextTable]_vars

\* The block cache, an index over the block map, drops or takes up blocks and
\* counts some of them hot (spec 3, Block cache).
block_cache ==
    /\ ctl = "outer" /\ ~site.fault /\ hist.n < hist.max /\ site.jit
    /\ \E c \in SUBSET {p \in site.pcs : site.block_map[p] # NULL} :
         \E h \in SUBSET c :
           /\ <<c, h>> # <<site.cache, site.hot>>
           /\ site' = [site EXCEPT !.cache = c, !.hot = h]
    /\ UNCHANGED core /\ UNCHANGED utils

\* The linker points a link of the site at the head of the block the block
\* map holds for its successor (spec 4.2).
link ==
    /\ ctl = "outer" /\ ~site.fault /\ hist.n < hist.max
    /\ \/ /\ site.block_map[TakenPC] # NULL
          /\ site.branch_taken # site.block_map[TakenPC]
          /\ site' = [site EXCEPT !.branch_taken = site.block_map[TakenPC]]
       \/ /\ site.op # "jal"
          /\ site.block_map[UntakenPC] # NULL
          /\ site.branch_untaken # site.block_map[UntakenPC]
          /\ site' = [site EXCEPT !.branch_untaken = site.block_map[UntakenPC]]
    /\ UNCHANGED core /\ UNCHANGED utils

\* The block the emulator holds for pc: with the JIT the one cache_get()
\* answers, else the one in the block map.
Held(pc) ==
    IF site.jit /\ pc \notin site.cache THEN NULL ELSE site.block_map[pc]

\* A link followed with no look at the block cache.
FollowLink_unchecked(ptr, pc, refresh) ==
    IF ptr = NULL THEN [go |-> FALSE, ptr |-> NULL, to |-> NULL]
    ELSE IF site.jit /\ pc \in site.hot THEN [go |-> FALSE, ptr |-> ptr, to |-> NULL]
    ELSE [go |-> TRUE, ptr |-> ptr, to |-> ptr]

\* What a jump or branch does with its link ptr to the successor at pc:
\* whether it tail-calls, the link it leaves in the record, and the record
\* called.  With the JIT a link whose block cache_get() does not find is
\* nulled, the branches that refresh take block->ir_head, and a hot block is
\* left to the outer loop.
FollowLink(ptr, pc, refresh) ==
    IF ptr = NULL THEN [go |-> FALSE, ptr |-> NULL, to |-> NULL]
    ELSE IF ~site.jit THEN [go |-> TRUE, ptr |-> ptr, to |-> ptr]
    ELSE IF pc \notin site.cache THEN [go |-> FALSE, ptr |-> NULL, to |-> NULL]
    ELSE LET p == IF refresh THEN site.block_map[pc] ELSE ptr
         IN  IF pc \in site.hot THEN [go |-> FALSE, ptr |-> p, to |-> NULL]
             ELSE [go |-> TRUE, ptr |-> p, to |-> p]

\* The site after the link which ("taken" or "untaken") to pc was looked at
\* with the outcome f.  Calling a record of a block the block map has let go
\* is a fault.
Linked(which, pc, f) ==
    [site EXCEPT
       !.branch_taken = IF which = "taken" THEN f.ptr ELSE @,
       !.branch_untaken = IF which = "untaken" THEN f.ptr ELSE @,
       !.went = [how |-> IF f.go THEN "chain" ELSE "exit", pc |-> pc, to |-> f.to,
                 held |-> Held(pc),
                 had |-> IF which = "taken" THEN site.branch_taken
                         ELSE site.branch_untaken,
                 now |-> f.ptr],
       !.fault = (f.go /\ f.to # site.block_map[pc])]

\* JAL x0, +8 at the site.
jal_site ==
    /\ ~site.fault
    /\ PC = SitePC /\ site.op = "jal"
    /\ \E ir \in {Ir(0, 0, 0, 8)} :
         LET pc == PC
             pc1 == Add32(PC, ir.imm)
             r1 == IF ir.rd # 0 THEN SetX(rv, ir.rd, Add32(pc, 4)) ELSE rv
             f == FollowLink(site.branch_taken, pc1, FALSE)
         IN  IF insn_is_misaligned(pc1)
               THEN /\ Run("jal", ir, MisalignExc(r1, "insn", FALSE, pc, pc1), pc1,
                           "false", io)
                    /\ UNCHANGED site
             ELSE /\ site' = Linked("taken", pc1, f)
                  /\ IF f.go
                       THEN Run("jal", [ir EXCEPT !.branch_taken = TRUE], r1, pc1,
                                "tail", io)
                     ELSE Run("jal", ir, EndInsn(r1, pc1), pc1, "true", io)

\* The body of a conditional branch at the site, the last record of its
\* block: BRANCH_FUNC refreshes both links from the cache, C.BEQZ and C.BNEZ
\* the untaken one only.
SiteBranch(op, ir, cond, len, refresh) ==
    LET pc == PC
        pc1 == Add32(PC, ir.imm)
        pc2 == Add32(PC, len)
        u == FollowLink(site.branch_untaken, pc2, TRUE)
        t == FollowLink(site.branch_taken, pc1, refresh)
    IN  IF cond
          THEN /\ site' = Linked("untaken", pc2, u)
               /\ IF u.go
                    THEN Run(op, [ir EXCEPT !.branch_untaken = TRUE], rv, pc2, "tail", io)
                  ELSE Run(op, ir, EndInsn(rv, pc2), pc2, "true", io)
        ELSE IF len = 4 /\ insn_is_misaligned(pc1)
          THEN /\ Run(op, ir, MisalignExc(rv, "insn", FALSE, pc, pc1), pc1, "false", io)
               /\ UNCHANGED site
        ELSE /\ site' = Linked("taken", pc1, t)
             /\ IF t.go
                  THEN Run(op, [ir EXCEPT !.branch_taken = TRUE], rv, pc1, "tail", io)
                ELSE Run(op, ir, EndInsn(rv, pc1), pc1, "true", io)

\* BEQ x1, x0, +8 at the site.
beq_site ==
    /\ ~site.fault
    /\ PC = SitePC /\ site.op = "beq"
    /\ \E ir \in {Ir(0, 1, 0, 8)} :
         SiteBranch("beq", ir, rv.X[ir.rs1] # rv.X[ir.rs2], 4, TRUE)

\* C.BEQZ x8, +8 at the site.
cbeqz_site ==
    /\ ~site.fault
    /\ PC = SitePC /\ site.op = "cbeqz"
    /\ \E ir \in {Ir(0, 8, 0, 8)} :
         SiteBranch("cbeqz", ir, rv.X[ir.rs1] # 0, 2, FALSE)

\* The site holds a JAL, a BEQ or a C.BEQZ, in a build with or without the
\* JIT; no block is built and no link is set.
InitLink ==
    /\ \E t \in JumpPCs :
         InitCore([RegFile EXCEPT ![1] = t, ![8] = t], SitePC, "run", LinkInsns)
    /\ UtilsIdle
    /\ \E jit \in BOOLEAN, op \in {"jal", "beq", "cbeqz"} :
         site = [NoSite(jit, {Add32(SitePC, 8), Add32(SitePC, IF op = "cbeqz" THEN 2 ELSE 4)})
                   EXCEPT !.op = op]

NextLink ==
    \/ Dispatch \/ block_create \/ block_evict \/ block_cache \/ link \/ guest_code
    \/ jal_site \/ beq_site \/ cbeqz_site

SpecLink == InitLink /\ [][NextLink]_vars

(***************************************************************************)
(* Properties                                                              *)
(***************************************************************************)

\* a + b modulo 2^32, added half by half with the carry between them.
WordSum(a, b) ==
    LET lo == Lo16(a) + Lo16(b)
        hi == Hi16(a) + Hi16(b) + (lo \div 65536)
    IN  FromHalves(hi % 65536, lo % 65536)

\* t is the word s with its least-significant bit cleared.
IsBit0Cleared(t, s) == t % 2 = 0 /\ (t = s \/ (s % 2 = 1 /\ t = s - 1))

\* Instructions that write their result to X[ir->rd].
RdWriters ==
    {"lui", "auipc", "lb", "lh", "lw", "lbu", "lhu", "addi", "slti", "sltiu",
     "xori", "ori", "andi", "slli", "srli", "srai", "add", "sub", "sll", "slt",
     "sltu", "xor", "srl", "sra", "or", "and", "mul", "div", "divu", "rem",
     "remu", "lrw", "cli"}

\* C1: after an instruction whose destination register index is 0 has retired,
\* X[0] is zero.
C1_X0ZeroAfterRd0 ==
    (last.op \in RdWriters /\ last.ir.rd = 0 /\ last.exit # "false")
      => rv.X[rv_reg_zero] = 0

\* An LW x0, 0(x1) has retired and left the loaded word 5 in X[0].
C1_Witness ==
    /\ last.op = "lw" /\ last.ir.rd = 0 /\ last.exit = "true"
    /\ rv.X[rv_reg_zero] = 5

\* C2: each retired instruction advances the cycle count by one, and whenever
\* dispatch returns true the csr_cycle it wrote is the initial value (zero)
\* plus the number of instructions retired since the start.
C2_CycleCountsRetired ==
    /\ hist.chain > 0 => cycle = last.cycle + 1
    /\ (ctl = "outer" /\ ret /\ hist.n > 0) => rv.csr_cycle = hist.n

\* An MRET and then an ADDI have retired, each ending its block, and
\* csr_cycle is 1.
C2_Witness ==
    /\ last.op = "addi" /\ ctl = "outer" /\ ret
    /\ hist.n = 2 /\ hist.chain = 1 /\ rv.csr_cycle = 1

\* C3: on every return of true from dispatch to the outer loop, rv->csr_cycle
\* holds the count of the chain just run (its entry value plus the
\* instructions the chain retired) and rv->PC holds the PC to continue at:
\* the chain's PC, or mepc after MRET, or what the host callback left.
C3_WrittenBackOnExit ==
    (ctl = "outer" /\ last.op # "none" /\ last.exit = "true") =>
      /\ rv.csr_cycle = hist.entry + hist.chain
      /\ rv.csr_cycle = cycle
      /\ last.op \notin {"ecall", "ebreak", "cebreak", "mret"} => rv.PC = PC
      /\ last.op = "mret" => rv.PC = rv.csr_mepc

\* A chain of two instructions has ended in MRET returning true, and
\* csr_cycle still holds the value the chain was entered with.
C3_Witness ==
    /\ ctl = "outer" /\ last.op = "mret" /\ last.exit = "true"
    /\ hist.chain = 2 /\ cycle = hist.entry + 2 /\ rv.csr_cycle = hist.entry
    /\ rv.PC = rv.csr_mepc

\* C4: JAL with rd # 0 leaves pc + 4 in X[rd], C.JAL leaves pc + 2 in x1, and
\* the new PC of either is pc + imm modulo 2^32.
C4_JalLinkAndTarget ==
    /\ last.op = "jal" =>
         /\ PC = WordSum(last.pc, last.ir.imm)
         /\ last.ir.rd # 0 => rv.X[last.ir.rd] = WordSum(last.pc, 4)
    /\ last.op = "cjal" =>
         /\ PC = WordSum(last.pc, last.ir.imm)
         /\ rv.X[rv_reg_ra] = WordSum(last.pc, 2)

\* A JAL x1 at 0xFFFFFFFC with offset 8 has wrapped to PC 4 and linked 0.
C4_Witness ==
    /\ last.op = "jal" /\ last.ir.rd = 1 /\ last.ir.imm = 8 /\ last.pc = -4
    /\ PC = 4 /\ rv.X[1] = 0

\* C5: JALR sets the new PC to (X[rs1] before the instruction + imm) with bit
\* 0 cleared, and with rd # 0 sets X[rd] to pc + 4, also when rd = rs1.
C5_JalrTargetAndLink ==
    last.op = "jalr" =>
      /\ IsBit0Cleared(PC, WordSum(last.X[last.ir.rs1], last.ir.imm))
      /\ last.ir.rd # 0 => rv.X[last.ir.rd] = WordSum(last.pc, 4)
      /\ last.exit = "true" => rv.PC = PC

\* A JALR x1, 1(x1) from 0x1000 with x1 = 0x1000 has gone to 0x1000 (0x1001
\* with bit 0 cleared) and linked 0x1004.
C5_Witness ==
    /\ last.op = "jalr" /\ last.ir.rd = 1 /\ last.ir.rs1 = 1 /\ last.ir.imm = 1
    /\ last.pc = 4096 /\ last.X[1] = 4096
    /\ PC = 4096 /\ rv.X[1] = 4100

\* C6: C.JR and C.JALR set the new PC to X[rs1] with its least-significant bit
\* cleared, and C.JALR writes pc + 2 to x1.
C6_CjrTargetBit0Cleared ==
    last.op \in {"cjr", "cjalr"} =>
      /\ IsBit0Cleared(PC, last.X[last.ir.rs1])
      /\ last.exit # "false"
      /\ last.op = "cjalr" => rv.X[rv_reg_ra] = WordSum(last.pc, 2)

\* A C.JR x3 with x3 = 0x1003 has returned true with PC = 0x1003.
C6_Witness ==
    /\ last.op = "cjr" /\ last.X[last.ir.rs1] = 4099 /\ last.exit = "true"
    /\ PC = 4099 /\ rv.PC = 4099

\* The unsigned product q * b fits in 32 bits: of the four products of
\* halves the high one is zero and the middle ones carry nothing out.
MulFits(q, b) ==
    LET cross == IF Hi16(q) = 0 THEN Mul32(Lo16(q), Hi16(b)) ELSE Mul32(Hi16(q), Lo16(b))
        low == Mul32(Lo16(q), Lo16(b))
    IN  /\ Hi16(q) = 0 \/ Hi16(b) = 0
        /\ cross >= 0 /\ cross < 65536
        /\ cross + Hi16(low) < 65536

\* Euclid's division of unsigned words: a = q * b + r exactly, with r < b.
IsUQuotRem(a, b, q, r) ==
    /\ ULt(r, b)
    /\ MulFits(q, b)
    /\ ~ULt(a, Mul32(q, b))
    /\ Add32(Mul32(q, b), r) = a

\* The magnitude of a signed word, as an unsigned word.
Mag(a) == IF a < 0 THEN Neg32(a) ELSE a

\* Truncating division of signed words: Euclid's on the magnitudes, the
\* quotient negative when the signs differ, the remainder signed as a.
IsSQuotRem(a, b, q, r) ==
    /\ IsUQuotRem(Mag(a), Mag(b), Mag(q), Mag(r))
    /\ q # 0 => ((q < 0) = ((a < 0) # (b < 0)))
    /\ r # 0 => ((r < 0) = (a < 0))

\* res is the result the RISC-V M extension defines for op on a and b.
IsaDivRem(op, a, b, res) ==
    CASE op = "divu" ->
           IF b = 0 THEN res = -1
           ELSE IsUQuotRem(a, b, res, Sub32(a, Mul32(res, b)))
      [] op = "remu" ->
           IF b = 0 THEN res = a
           ELSE IsUQuotRem(a, b, UDiv32(a, b), res)
      [] op = "div" ->
           IF b = 0 THEN res = -1
           ELSE IF a = MIN32 /\ b = -1 THEN res = MIN32
           ELSE IsSQuotRem(a, b, res, Sub32(a, Mul32(res, b)))
      [] op = "rem" ->
           IF b = 0 THEN res = a
           ELSE IF a = MIN32 /\ b = -1 THEN res = 0
           ELSE IsSQuotRem(a, b, SDiv32(a, b), res)

EffAddr(op, ir, x) ==
    IF op \in {"clwsp", "cswsp"} THEN WordSum(x[rv_reg_sp], ir.imm)
    ELSE IF op \in {"lrw", "scw"} THEN x[ir.rs1]
    ELSE WordSum(x[ir.rs1], ir.imm)

HalfOps == {"lh", "lhu", "sh"}
WordOps == {"lw", "sw", "clw", "csw", "clwsp", "cswsp", "flw", "fsw", "lrw", "scw"}

\* The last instruction was a halfword or word access at a misaligned address.
MisalignedAccess ==
    \/ last.op \in HalfOps /\ EffAddr(last.op, last.ir, last.X) % 2 # 0
    \/ last.op \in WordOps /\ EffAddr(last.op, last.ir, last.X) % 4 # 0

\* C8: a halfword or word load or store at a misaligned address invokes no
\* memory callback and raises a load- or store-misalignment exception.
C8_MisalignedAccessNoCallback ==
    MisalignedAccess =>
      /\ Len(io) = last.ncalls
      /\ last.exit = "false"
      /\ rv.exc.kind \in {"load", "store"}

\* An FLW f1, 1(x1) with x1 = 0x1000 has read the word at 0x1001 through
\* the host callback and retired.
C8_Witness ==
    /\ last.op = "flw" /\ last.ir.imm = 1 /\ last.X[last.ir.rs1] = 4096
    /\ last.exit # "false" /\ rv.exc = NoExc
    /\ Len(io) = last.ncalls + 1
    /\ io[Len(io)].cb = "mem_read_w" /\ io[Len(io)].addr = 4097

\* C9: when JAL, JALR, C.JAL or C.JALR raises the instruction-address-
\* misaligned exception, the registers (the link register among them) hold
\* their values from before the instruction.
C9_NoLinkOnMisalign ==
    (last.op \in {"jal", "jalr", "cjal", "cjalr"} /\ last.exit = "false")
      => rv.X = last.X

\* A C.JALR x3 at 0x1000 with x3 = 0x1003 has raised the exception with
\* x1 already overwritten by 0x1002.
C9_Witness ==
    /\ last.op = "cjalr" /\ last.pc = 4096 /\ last.X[last.ir.rs1] = 4099
    /\ last.exit = "false" /\ rv.exc = [kind |-> "insn", val |-> 4099]
    /\ last.X[rv_reg_ra] = 4096 /\ rv.X[rv_reg_ra] = 4098

\* The branch predicates of the base ISA.
BranchTaken(op, a, b) ==
    CASE op = "beq" -> a = b
      [] op = "bne" -> a # b
      [] op = "blt" -> a < b
      [] op = "bge" -> a >= b
      [] op = "bltu" -> Flip32(a) < Flip32(b)
      [] op = "bgeu" -> Flip32(a) >= Flip32(b)
      [] op = "cbeqz" -> a = 0
      [] op = "cbnez" -> a # 0

BranchOps == {"beq", "bne", "blt", "bge", "bltu", "bgeu", "cbeqz", "cbnez"}

\* C10: a taken conditional branch whose target is misaligned ends in the
\* instruction-misalignment exception at the branch itself (no successor is
\* dispatched, no true return hands the PC back); an untaken one never does.
C10_BranchMisalignRaised ==
    last.op \in BranchOps =>
      LET taken == BranchTaken(last.op, last.X[last.ir.rs1], last.X[last.ir.rs2])
          target == WordSum(last.pc, last.ir.imm)
      IN  /\ (taken /\ target % 2 # 0) => (last.exit = "false" /\ rv.exc.kind = "insn")
          /\ ~taken => last.exit # "false"

\* A C.BEQZ x9, +8 dispatched at PC 0x1003 with x9 = 0 has been taken to
\* 0x100B and returned true with no exception recorded.
C10_Witness ==
    /\ last.op = "cbeqz" /\ last.pc = 4099 /\ last.X[last.ir.rs1] = 0
    /\ hist.chain = 1 /\ last.exit = "true"
    /\ rv.PC = 4107 /\ rv.exc = NoExc

\* C11: a run that tail-chains through linked successors and the run of the
\* same records one per dispatch, every link NULL, end with the same integer
\* and float registers, the same callback log, the same rv->PC and the same
\* rv->csr_cycle.
C11_ChainedEqualsStepped ==
    (hist.mode = "step" /\ ctl = "outer" /\ hist.n = Len(hist.trace)) =>
      /\ rv.X = hist.snap.rv.X
      /\ rv.F = hist.snap.rv.F
      /\ io = hist.snap.io
      /\ rv.PC = hist.snap.rv.PC
      /\ rv.csr_cycle = hist.snap.rv.csr_cycle

\* The chain ADDI -> MRET ended with csr_cycle 0; the same two records run
\* one per dispatch have ended with csr_cycle 1.
C11_Witness ==
    /\ hist.mode = "step" /\ ctl = "outer" /\ hist.n = 2 /\ Len(hist.trace) = 2
    /\ hist.trace[1].op = "addi" /\ hist.trace[2].op = "mret"
    /\ hist.snap.rv.csr_cycle = 0 /\ rv.csr_cycle = 1
    /\ rv.X = hist.snap.rv.X /\ rv.PC = hist.snap.rv.PC

\* C12: every dispatch returns to the outer loop: a chain of tail calls that
\* has started eventually ends.
C12_DispatchReturns == (ctl = "insn") ~> (ctl = "outer")

\* The JAL x0, 0 at 0x1000, linked to itself, has run CycleBudget times in
\* one chain and is about to run again.
C12_Witness ==
    /\ ctl = "insn" /\ PC = 4096 /\ last.op = "jal" /\ last.pc = 4096
    /\ last.exit = "tail" /\ hist.chain = CycleBudget

\* Instructions that halt the run by design, and the 16-bit encodings.
HaltOps == {"wfi", "uret", "sret", "hret"}
CompressedOps ==
    {"caddi4spn", "clw", "csw", "cnop", "caddi", "cjal", "cli", "caddi16sp",
     "clui", "csrli", "csrai", "candi", "csub", "cxor", "cor", "cand", "cj",
     "cbeqz", "cbnez", "cslli", "clwsp", "cjr", "cmv", "cebreak", "cjalr",
     "cadd", "cswsp"}

\* C13: when control is back in the outer loop, the dispatch returned false
\* exactly when the last instruction was WFI, URET, SRET or HRET or it
\* recorded an exception; ECALL, EBREAK, C.EBREAK, MRET, jumps and branches
\* that raise nothing return true.
C13_FalseOnlyOnHalt ==
    (ctl = "outer" /\ last.op # "none") =>
      /\ (ret = FALSE) <=> (last.op \in HaltOps \/ rv.exc # NoExc)
      /\ ret = (last.exit = "true")
      /\ last.op \in {"ecall", "ebreak", "cebreak", "mret"} => ret = TRUE

\* A C.EBREAK has called on_ebreak and returned true to the outer loop.
C13_Witness ==
    /\ ctl = "outer" /\ last.op = "cebreak" /\ ret = TRUE
    /\ Len(io) = last.ncalls + 1 /\ io[Len(io)].cb = "on_ebreak"

\* C14: when the host sees the machine after an instruction (a true return
\* to the outer loop, or a recorded exception), rv->compressed says whether
\* that instruction was a 16-bit encoding.
C14_CompressedTracksLast ==
    (ctl = "outer" /\ (last.exit = "true" \/ rv.exc # NoExc)) =>
      (rv.compressed <=> last.op \in CompressedOps)

\* A C.LI has ended its block and returned true with rv->compressed false.
C14_Witness ==
    /\ ctl = "outer" /\ last.op = "cli" /\ last.exit = "true" /\ ret = TRUE
    /\ rv.compressed = FALSE /\ rv.PC = WordSum(last.pc, 2)

\* C15: a conditional branch leaves pc + imm in PC when its predicate holds
\* on X[rs1], X[rs2] and pc + 4 (pc + 2 for C.BEQZ / C.BNEZ) when it does not,
\* and changes no integer register.
C15_BranchTarget ==
    last.op \in BranchOps =>
      LET taken == BranchTaken(last.op, last.X[last.ir.rs1], last.X[last.ir.rs2])
          size == IF last.op \in CompressedOps THEN 2 ELSE 4
      IN  /\ PC = WordSum(last.pc, IF taken THEN last.ir.imm ELSE size)
          /\ rv.X = last.X

\* With x1 = -8 and x2 = 3 a BLTU x1, x2 at 0x1000 has fallen through to
\* 0x1004 (a BLT would have been taken).
C15_Witness ==
    /\ last.op = "bltu" /\ last.ir.rs2 = 2 /\ last.pc = 4096
    /\ last.X[1] = -8 /\ last.X[2] = 3
    /\ PC = 4100 /\ rv.X = last.X

\* Bit i (0 the lowest, 31 the sign) of a word.
Bit(x, i) ==
    IF i = 31 THEN x < 0
    ELSE ((IF x < 0 THEN x - MIN32 ELSE x) \div Pow2(i)) % 2 = 1

\* res is a shifted by k places, bit for bit: to the left with zeros coming
\* in, to the right with zeros coming in, or to the right with copies of
\* a's sign bit coming in.
IsShifted(kind, a, k, res) ==
    /\ res >= MIN32 /\ res <= MAX32
    /\ \A i \in 0..31 :
         Bit(res, i) =
           CASE kind = "left" -> (i >= k /\ Bit(a, i - k))
             [] kind = "right" -> (i + k <= 31 /\ Bit(a, i + k))
             [] kind = "arith" -> Bit(a, IF i + k <= 31 THEN i + k ELSE 31)

ShiftKind(op) ==
    CASE op \in {"slli", "sll"} -> "left"
      [] op \in {"srli", "srl"} -> "right"
      [] op \in {"srai", "sra"} -> "arith"

\* C16: SLLI/SRLI/SRAI shift X[rs1] by the low five bits of the immediate
\* and SLL/SRL/SRA by the low five bits of X[rs2]; the right shifts fill
\* with zeros, the arithmetic ones with the operand's sign bit.
C16_ShiftResults ==
    /\ last.op \in {"slli", "srli", "srai"} =>
         IsShifted(ShiftKind(last.op), last.X[last.ir.rs1], last.ir.imm % 32,
                   rv.X[last.ir.rd])
    /\ last.op \in {"sll", "srl", "sra"} =>
         IsShifted(ShiftKind(last.op), last.X[last.ir.rs1],
                   last.X[last.ir.rs2] % 32, rv.X[last.ir.rd])

\* SRA of 0x80000000 by x2 = -8 (low five bits 24) has written 0xFFFFFF80.
C16_Witness ==
    /\ last.op = "sra" /\ last.ir.rd = 3
    /\ last.X[last.ir.rs1] = MIN32 /\ last.X[last.ir.rs2] = -8
    /\ rv.X[3] = -128

\* 64-bit quantities as <<high word, low word>>: their sum, a value below
\* 2^24 moved k bits up (k <= 40), and the two's-complement negation.
Sum64(x, y) ==
    LET lo == WordSum(x[2], y[2])
        carry == IF Flip32(lo) < Flip32(x[2]) THEN 1 ELSE 0
    IN  <<WordSum(WordSum(x[1], y[1]), carry), lo>>

Up64(v, k) ==
    IF k = 0 THEN <<0, v>>
    ELSE IF k < 32 THEN <<v \div Pow2(32 - k), ShlPart(v, k)>>
    ELSE <<ShlPart(v, k - 32), 0>>

Neg64(x) == Sum64(<<(-1) - x[1], (-1) - x[2]>>, <<0, 1>>)

\* The exact product of two unsigned words, row by row: a times each byte of
\* b, each row the sum of that byte times a's two halves.
Row64(a, c, k) == Sum64(Up64(Lo16(a) * c, k), Up64(Hi16(a) * c, k + 16))
UProduct(a, b) ==
    Sum64(Sum64(Row64(a, ByteOf(b, 0), 0), Row64(a, ByteOf(b, 1), 8)),
          Sum64(Row64(a, ByteOf(b, 2), 16), Row64(a, ByteOf(b, 3), 24)))

\* The exact product with each operand read as signed or unsigned: the
\* product of the magnitudes, negated when exactly one operand is negative.
Product(a, asigned, b, bsigned) ==
    LET na == asigned /\ a < 0
        nb == bsigned /\ b < 0
        p == UProduct(IF na THEN Mag(a) ELSE a, IF nb THEN Mag(b) ELSE b)
    IN  IF na # nb THEN Neg64(p) ELSE p

\* C17: MULH, MULHSU and MULHU write the high word of the exact 64-bit
\* product of X[rs1] and X[rs2] read as signed x signed, signed x unsigned
\* and unsigned x unsigned, and MUL writes its low word.
C17_MulResults ==
    LET a == last.X[last.ir.rs1]
        b == last.X[last.ir.rs2]
        res == rv.X[last.ir.rd]
    IN  /\ last.op = "mul" => res = Product(a, TRUE, b, TRUE)[2]
        /\ last.op = "mulh" => res = Product(a, TRUE, b, TRUE)[1]
        /\ last.op = "mulhsu" => res = Product(a, TRUE, b, FALSE)[1]
        /\ last.op = "mulhu" => res = Product(a, FALSE, b, FALSE)[1]

\* MULHSU of -8 by 0xFFFFFFFF has written 0xFFFFFFF8 (MULH would give 0).
C17_Witness ==
    /\ last.op = "mulhsu" /\ last.ir.rd = 3
    /\ last.X[last.ir.rs1] = -8 /\ last.X[last.ir.rs2] = -1
    /\ rv.X[3] = -8

\* C18: the emitted JALR leaves in PC the target computed from the value
\* rs1 held before the instruction, bit 0 cleared, leaves pc + 4 in X[rd]
\* when rd # 0 and changes no other register: what the interpreter's jalr
\* does.
C18_EmittedJalr ==
    last.op = "jit_jalr" =>
      /\ IsBit0Cleared(PC, WordSum(last.X[last.ir.rs1], last.ir.imm))
      /\ rv.PC = PC
      /\ \A r \in Regs :
           rv.X[r] = IF r = last.ir.rd /\ r # 0 THEN WordSum(last.pc, 4) ELSE last.X[r]

\* The code emitted for JALR x1, 0(x1) at 0x1000 with x1 = 7 has gone to
\* 0x1004, the link value, instead of 6.
C18_Witness ==
    /\ last.op = "jit_jalr" /\ last.ir.rd = 1 /\ last.ir.rs1 = 1 /\ last.ir.imm = 0
    /\ last.pc = 4096 /\ last.X[1] = 7
    /\ PC = 4100 /\ rv.PC = 4100 /\ rv.X[1] = 4100

\* C19: the code emitted for SLT and SLTI writes 1 to X[rd] when X[rs1] is
\* less than X[rs2] (the immediate) as signed numbers and 0 otherwise, as
\* the interpreter's slt and slti do; the code emitted for BLT (jcc 0x8c)
\* and BLTU (jcc 0x82) goes where the interpreter's branches go.
C19_EmittedSlt ==
    /\ last.op = "jit_slt" =>
         rv.X[last.ir.rd] = IF last.X[last.ir.rs1] < last.X[last.ir.rs2] THEN 1 ELSE 0
    /\ last.op = "jit_slti" =>
         rv.X[last.ir.rd] = IF last.X[last.ir.rs1] < last.ir.imm THEN 1 ELSE 0
    /\ last.op \in {"jit_blt", "jit_bltu"} =>
         LET taken == BranchTaken(IF last.op = "jit_blt" THEN "blt" ELSE "bltu",
                                  last.X[last.ir.rs1], last.X[last.ir.rs2])
         IN  /\ PC = WordSum(last.pc, IF taken THEN last.ir.imm ELSE 4)
             /\ rv.X = last.X

\* The code emitted for SLT x3, x1, x2 with x1 = -1 and x2 = 1 has written
\* 0 (jcc 0x82 read 0xFFFFFFFF as not below 1).
C19_Witness ==
    /\ last.op = "jit_slt" /\ last.ir.rd = 3
    /\ last.X[last.ir.rs1] = -1 /\ last.X[last.ir.rs2] = 1
    /\ rv.X[3] = 0

AmoOps ==
    {"amoswapw", "amoaddw", "amoxorw", "amoandw", "amoorw", "amominw", "amomaxw",
     "amominuw", "amomaxuw"}

\* Bitwise a & b, a | b and a ^ b, bit for bit.
IsBitwise(kind, a, b, res) ==
    \A i \in 0..31 :
      Bit(res, i) = CASE kind = "and" -> (Bit(a, i) /\ Bit(b, i))
                      [] kind = "or" -> (Bit(a, i) \/ Bit(b, i))
                      [] kind = "xor" -> (Bit(a, i) # Bit(b, i))

\* res is what the binary operator of the AMO gives on the loaded word v and
\* the register operand b.
IsAmoResult(op, v, b, res) ==
    CASE op = "amoswapw" -> res = b
      [] op = "amoaddw" -> res = WordSum(v, b)
      [] op = "amoxorw" -> IsBitwise("xor", v, b, res)
      [] op = "amoandw" -> IsBitwise("and", v, b, res)
      [] op = "amoorw" -> IsBitwise("or", v, b, res)
      [] op = "amominw" -> res = (IF v < b THEN v ELSE b)
      [] op = "amomaxw" -> res = (IF v > b THEN v ELSE b)
      [] op = "amominuw" -> res = (IF Flip32(v) < Flip32(b) THEN v ELSE b)
      [] op = "amomaxuw" -> res = (IF Flip32(v) > Flip32(b) THEN v ELSE b)

\* C20: an AMO*.W reads the word at the address X[rs1] into X[rd], and
\* writes to that same address, as a word, its operator's result on the
\* loaded value and the value X[rs2] held before the instruction.
C20_AmoReadModifyWrite ==
    last.op \in AmoOps =>
      /\ Len(io) = last.ncalls + 2
      /\ LET load == io[last.ncalls + 1]
             store == io[last.ncalls + 2]
         IN  /\ load.cb = "mem_read_w" /\ load.addr = last.X[last.ir.rs1]
             /\ rv.X[last.ir.rd] = load.val
             /\ store.cb = "mem_write_w" /\ store.addr = last.X[last.ir.rs1]
             /\ IsAmoResult(last.op, load.val, last.X[last.ir.rs2], store.val)

\* AMOMIN.W x3, x2, (x1) with x1 = 0x1000 and x2 = 0x2000 has read the
\* word 0x80000000 at address 1 and handed 0x2000 to mem_write_s at address 1.
C20_Witness ==
    /\ last.op = "amominw" /\ last.X[1] = 4096 /\ last.X[2] = 8192
    /\ Len(io) = last.ncalls + 2
    /\ io[last.ncalls + 1] = [cb |-> "mem_read_w", addr |-> 1, val |-> MIN32]
    /\ io[last.ncalls + 2] = [cb |-> "mem_write_s", addr |-> 1, val |-> 8192]
    /\ rv.X[3] = MIN32

\* C21: set_has(k) is true exactly when k has been added since the last
\* set_reset; set_add(k) returns true when it inserts k, and false, leaving
\* the set as it was, when k was already there.
C21_SetMembership ==
    lib.fault = "none" =>
      /\ lib.fn = "set_has" => (lib.res <=> lib.key \in lib.added)
      /\ lib.fn = "set_add" =>
           /\ lib.res <=> ~lib.had
           /\ ~lib.res => set = lib.prev

\* Key 0 has been added (set_add returned true) and set_has(0) has just
\* returned false.
C21_Witness ==
    /\ lib.fn = "set_has" /\ lib.key = 0 /\ lib.fault = "none"
    /\ 0 \in lib.added /\ lib.res = FALSE

\* C29: set_add and set_has never read or write a bucket slot at index
\* SET_SLOTS_SIZE or beyond, and none of their assertions fails.
C29_NoSlotOverrun == lib.fn \in {"set_add", "set_has"} => lib.fault = "none"

\* The bucket of the key holds SET_SLOTS_SIZE other keys and the call has
\* read the slot past its end.
C29_Witness ==
    /\ lib.fn \in {"set_add", "set_has"} /\ lib.fault # "none"
    /\ \A c \in Slots : set[lib.hash[lib.key]][c] \notin {0, lib.key}

\* The result of sanitize_path is a string within its buffer: some byte of
\* ret is NUL.
Terminated(s) == \E i \in 1 .. Len(s.ret) : s.ret[i] = NUL

\* C22: the result of sanitize_path is never longer than the input; during
\* the scan the write index never exceeds the read index, no store leaves
\* the n + 1 bytes of the buffer, and the result is NUL-terminated.
C22_ResultFitsInput ==
    /\ san.at \in {"scan", "copy"} => san.w <= san.r
    /\ ~san.over
    /\ san.at = "done" => (Terminated(san) /\ Len(san.out) <= san.n)

\* The empty input has returned a one-byte buffer holding '.' and no NUL.
C22_Witness ==
    /\ san.at = "done" /\ san.n = 0 /\ san.ret = <<".">> /\ ~Terminated(san)

\* The path elements of a result: the runs between its slashes, a leading
\* slash set aside; each is given with the position it starts after.  The
\* result "/" has no element.
PathElements(str) ==
    LET body == IF Len(str) > 0 /\ str[1] = "/" THEN Tail(str) ELSE str
        seps == {0, Len(body) + 1} \cup {i \in 1 .. Len(body) : body[i] = "/"}
    IN  IF body = <<>> THEN {}
        ELSE {[at |-> a, el |-> SubSeq(body, a + 1, b - 1)] :
                <<a, b>> \in {p \in seps \X seps :
                                /\ p[1] < p[2]
                                /\ \A c \in seps : ~(p[1] < c /\ c < p[2])}}

\* C30: an input beginning with '/' gives a result beginning with '/' and
\* holding no ".." element; every result holds no empty element and no "."
\* element, unless it is "." itself, and holds ".." elements only as the
\* leading elements of a relative result.
C30_ResultNormalised ==
    san.at = "done" =>
      LET els == PathElements(san.out)
          rooted == san.n > 0 /\ san.input[1] = "/"
      IN  /\ rooted => (Len(san.out) > 0 /\ san.out[1] = "/")
          /\ rooted => \A e \in els : e.el # <<".", ".">>
          /\ \A e \in els : e.el # <<>>
          /\ san.out # <<".">> => \A e \in els : e.el # <<".">>
          /\ \A e \in els : e.el = <<".", ".">> =>
               \A f \in els : f.at < e.at => f.el = <<".", ".">>

\* The empty input has returned '.' in a buffer without a NUL, and the
\* string read from it goes on with the '/' that follows the buffer.
C30_Witness ==
    /\ san.at = "done" /\ san.n = 0 /\ san.ret = <<".">>
    /\ san.out = <<".", "/">>

\* C23: ECALL, EBREAK and C.EBREAK hand the host callback a machine whose
\* compressed flag is latched (true for C.EBREAK only), whose csr_cycle counts
\* the trapping instruction and whose PC is that instruction's address; they
\* then return true, and rv->PC is what the callback left there.
C23_TrapWritesBeforeCallback ==
    last.op \in {"ecall", "ebreak", "cebreak"} =>
      /\ last.exit = "true"
      /\ Len(io) = last.ncalls + 1
      /\ LET e == io[Len(io)]
         IN  /\ e.cb = (IF last.op = "ecall" THEN "on_ecall" ELSE "on_ebreak")
             /\ e.seen = [PC |-> last.pc, csr_cycle |-> Tick(last.cycle),
                          compressed |-> (last.op = "cebreak")]
             /\ rv.PC = e.left
             /\ rv.csr_cycle = Tick(last.cycle)

\* C.EBREAK, reached in a chain behind another record, has handed on_ebreak
\* its own address, and the callback has moved rv->PC past it.
C23_Witness ==
    /\ last.op = "cebreak" /\ last.exit = "true" /\ hist.chain = 2
    /\ io # <<>>
    /\ io[Len(io)].seen.compressed /\ io[Len(io)].seen.PC = last.pc
    /\ io[Len(io)].left = Add32(last.pc, 2) /\ rv.PC = Add32(last.pc, 2)
    /\ rv.compressed

\* C28: C.SRLI, C.SRAI and C.SLLI give what SRLI, SRAI and SLLI give for the
\* same register value and shift amount: the instruction that has just run
\* has, and for every shift amount 0..31 the logical shift followed by the
\* sign-fill loop of C.SRAI is the arithmetic shift of the values at hand.
C28_CompressedShifts ==
    /\ last.op = "csrli" =>
         /\ rv.X[last.ir.rs1] = Shr32(last.X[last.ir.rs1], LowBits(last.ir.shamt, 31))
         /\ IsShifted("right", last.X[last.ir.rs1], last.ir.shamt, rv.X[last.ir.rs1])
    /\ last.op = "csrai" =>
         /\ rv.X[last.ir.rs1] = Sar32(last.X[last.ir.rs1], LowBits(last.ir.shamt, 31))
         /\ IsShifted("arith", last.X[last.ir.rs1], last.ir.shamt, rv.X[last.ir.rs1])
    /\ last.op = "cslli" =>
         /\ rv.X[last.ir.rd] = Shl32(last.X[last.ir.rd], LowBits(last.ir.imm, 31))
         /\ IsShifted("left", last.X[last.ir.rd], last.ir.imm, rv.X[last.ir.rd])
    /\ \A k \in 0 .. 31 :
         csrai_fill(Shr32(rv.X[8], k), And32(MIN32, rv.X[8]), 0, k) = Sar32(rv.X[8], k)

\* C.SRAI of 0x80000000 by 31 has filled every bit: x8 is 0xFFFFFFFF.
C28_Witness ==
    /\ last.op = "csrai" /\ last.ir.shamt = 31 /\ last.ir.rs1 = 8
    /\ last.X[8] = MIN32 /\ rv.X[8] = -1

\* C25: an indirect jump whose target PC is in no slot of the table stores
\* (PC, block head) in the slot at the round-robin index and in no other when
\* the block map holds a block for the PC, the index moves on by one modulo
\* HISTORY_SIZE and stays within 0 .. HISTORY_SIZE - 1, and the slot stored
\* to is the one stored to longest ago once every slot has been stored to;
\* a jump that finds no block, or that hits, leaves table and index alone.
C25_TableUpdate ==
    site.went.how # "none" =>
      LET p == site.prev
          t == site.branch_table
          w == site.went
      IN  /\ t.idx \in HSlots
          /\ IF (\A i \in HSlots : p.PC[i] # w.pc) /\ w.held # NULL
               THEN /\ t.PC[p.idx] = w.pc /\ t.target[p.idx] = w.held
                    /\ \A i \in HSlots \ {p.idx} :
                         t.PC[i] = p.PC[i] /\ t.target[i] = p.target[i]
                    /\ t.idx = (p.idx + 1) % HISTORY_SIZE
                    /\ IF p.written = HSlots
                         THEN Head(p.order) = p.idx
                         ELSE p.idx \notin p.written
               ELSE t.PC = p.PC /\ t.target = p.target /\ t.idx = p.idx

\* A miss with a block to insert into a table whose slots have all been
\* stored to: the oldest entry has been replaced.
C25_Witness ==
    /\ site.went.how = "miss" /\ site.went.held # NULL
    /\ site.prev.written = HSlots
    /\ site.branch_table.PC[site.prev.idx] = site.went.pc

\* C26: a hit of the branch history table dispatches a record that is not
\* NULL and is the head of the block the block map holds for the target PC
\* at that moment.
C26_HitIsLiveHead ==
    site.went.how = "hit" => site.went.to # NULL /\ site.went.to = site.went.held

\* A hit on a slot that was stored to, whose target is the head of a block
\* the block map has let go since.
C26_Witness ==
    /\ site.went.how = "hit"
    /\ site.went.to # NULL /\ site.went.to # site.went.held
    /\ \E i \in site.prev.written :
         site.prev.PC[i] = site.went.pc /\ site.prev.target[i] = site.went.to

\* C27: no two slots of the table that have been stored to hold the same PC.
C27_DistinctSlots ==
    \A i, j \in site.written :
        i # j => site.branch_table.PC[i] # site.branch_table.PC[j]

\* Every slot has been stored to, the last jump was a hit, and a slot has
\* been stored to more than once.
C27_Witness ==
    /\ site.written = HSlots
    /\ site.went.how = "hit"
    /\ hist.n > HISTORY_SIZE + 1

\* C24: a jump or branch that tail-calls through branch_taken or
\* branch_untaken calls the head record of the block held for the target PC
\* at that moment; one that finds its link set while no block is held for
\* the target leaves the link NULL and returns to the outer loop.
C24_LinksAreLive ==
    /\ site.went.how = "chain" =>
         site.went.to # NULL /\ site.went.to = site.went.held
    /\ site.went.how \in {"chain", "exit"} /\ site.went.had # NULL
       /\ site.went.held = NULL =>
         site.went.how = "exit" /\ site.went.now = NULL /\ last.exit = "true"

\* With the JIT, the site has tail-called through a link to a block that was
\* built again after the block map had let the first one go.
C24_Witness ==
    /\ site.jit /\ site.went.how = "chain"
    /\ site.born[site.went.pc] > 1
    /\ site.went.to = site.block_map[site.went.pc]

====
